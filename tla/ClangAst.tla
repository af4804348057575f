------------------------------ MODULE ClangAst ------------------------------
(***************************************************************************)
(* The part of Clang's syntax trees that the collectors read (external).   *)
(* An expression or a statement is a record whose op tells what it is.     *)
(* Casts, parentheses and cleanups, which every visitor looks through, are *)
(* left out; "decay" is the implicit conversion of a function or a lambda  *)
(* to a pointer that the call graph builder looks for.                     *)
(*                                                                         *)
(* A function is [name, kind, type, params, hasBody, inits, body,          *)
(* overrides, subdtors, definition, operator]: kind is "function",         *)
(* "method", "virtual", "ctor", "dtor" or "invoker" (the static invoker of *)
(* a lambda whose call operator is operator); type is that of its result;  *)
(* subdtors are the destructors of the bases and members of what it        *)
(* destroys; definition is FALSE for a declaration whose definition is in  *)
(* the unit too.  A parameter is [name, type, fields].  Types are          *)
(* "function", "fptr" (pointer to function) and "other".                   *)
(* A unit is [functions, globals, fields].                                 *)
(***************************************************************************)
EXTENDS Integers, Sequences

ref(decl, type) == [op |-> "ref", decl |-> decl, type |-> type]
this == [op |-> "this"]
lit == [op |-> "lit"]
decay(e) == [op |-> "decay", sub |-> e]
deref(e) == [op |-> "deref", sub |-> e]
addr(e) == [op |-> "addr", sub |-> e]
index(e, i) == [op |-> "index", base |-> e, idx |-> i]
member(e, field, arrow) == [op |-> "member", base |-> e, field |-> field, arrow |-> arrow]
binop(opcode, l, r) == [op |-> "binop", opcode |-> opcode, lhs |-> l, rhs |-> r]
assign(l, r) == binop("=", l, r)
cond(c, t, e) == [op |-> "cond", cond |-> c, then |-> t, else |-> e]

\* direct is the function that is called, "" if it is not known; kind is "call", "member"
\* (of an object) or "operator" (the first argument is the object if it is a member).
call(id, callee, args, direct, kind) ==
    [op |-> "call", id |-> id, callee |-> callee, args |-> args, direct |-> direct, kind |-> kind]

new(id, init, place) == [op |-> "new", id |-> id, init |-> init, place |-> place]
construct(id, ctor, args) == [op |-> "construct", id |-> id, ctor |-> ctor, args |-> args]
temp(id, e) == [op |-> "temp", id |-> id, sub |-> e]
bind(e, dtor) == [op |-> "bind", sub |-> e, dtor |-> dtor]
delete(e, dtor) == [op |-> "delete", sub |-> e, dtor |-> dtor]

\* parts are pairs of a field ("" in an array) and an expression
initlist(parts) == [op |-> "initlist", parts |-> parts]

expr(e) == [op |-> "expr", sub |-> e]
return(es) == [op |-> "return", value |-> es]
decl(name, type, fields, dtor, init) ==
    [op |-> "decl", name |-> name, type |-> type, fields |-> fields, dtor |-> dtor, init |-> init]
if(c, t, e) == [op |-> "if", cond |-> c, then |-> t, else |-> e]

\* kind is "for", "while" or "do"; header is what else the head of the loop evaluates
loop(kind, header, c, b) ==
    [op |-> "loop", kind |-> kind, header |-> header, cond |-> c, body |-> b]
switch(c, b) == [op |-> "switch", cond |-> c, body |-> b]
case(b) == [op |-> "case", body |-> b]
default(b) == [op |-> "default", body |-> b]
try(b, handlers) == [op |-> "try", body |-> b, handlers |-> handlers]
block(b) == [op |-> "block", body |-> b]

-----------------------------------------------------------------------------
\* The expressions and statements right below e, in the order they are visited.
Children(e) ==
    CASE e.op \in {"ref", "this", "lit"} -> <<>>
      [] e.op \in {"decay", "deref", "addr", "temp", "bind", "delete", "expr"} -> <<e.sub>>
      [] e.op = "index" -> <<e.base, e.idx>>
      [] e.op = "member" -> <<e.base>>
      [] e.op = "binop" -> <<e.lhs, e.rhs>>
      [] e.op = "cond" -> <<e.cond, e.then, e.else>>
      [] e.op = "if" -> <<e.cond, e.then>> \o e.else
      [] e.op = "call" -> <<e.callee>> \o e.args
      [] e.op = "construct" -> e.args
      [] e.op = "new" -> e.place \o e.init
      [] e.op = "initlist" -> [i \in DOMAIN e.parts |-> e.parts[i][2]]
      [] e.op = "return" -> e.value
      [] e.op = "decl" -> e.init
      [] e.op = "loop" -> e.header \o e.cond \o <<e.body>>
      [] e.op = "switch" -> <<e.cond, e.body>>
      [] e.op \in {"case", "default", "block"} -> e.body
      [] e.op = "try" -> <<e.body>> \o e.handlers

Functions(unit) == {unit.functions[i] : i \in DOMAIN unit.functions}
FunctionNamed(unit, name) == CHOOSE f \in Functions(unit) : f.name = name /\ f.definition

\* The declaration of a function that a call in the i-th function refers to: the last one
\* before it.
Callee(unit, i, name) ==
    LET seen == {j \in 1..i : unit.functions[j].name = name}
    IN IF seen = {} THEN FunctionNamed(unit, name)
       ELSE unit.functions[CHOOSE j \in seen : \A k \in seen : k <= j]

Methods == {"method", "virtual", "ctor", "dtor"}

\* The variants a function is emitted as: a constructor or destructor as the one of a
\* complete object and the one of a base.
Variants(kind) == IF kind \in {"ctor", "dtor"} THEN 1..2 ELSE {1}

getMangledName(unit, f) == {f} \X Variants(FunctionNamed(unit, f).kind)
=============================================================================
