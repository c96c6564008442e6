----------------------------- MODULE Expressions -----------------------------
(***************************************************************************)
(* Expressions and the pointers to them (include/smt.h): class SharedExpr, *)
(* which counts references in the expression it points to, make_shared_-   *)
(* expr, with the expression store that ENABLE_HASH_CONS compiles in or    *)
(* without, and the destructors.                                           *)
(*                                                                         *)
(* The address of a deleted expression may be that of a later one.  Only   *)
(* Boolean expressions are made: symbols, negations and the binary         *)
(* connectives, which all other kinds follow in what matters here.  Sorts  *)
(* and statistics are left out.                                            *)
(***************************************************************************)
EXTENDS Naturals, Sequences, FiniteSets, Formulas

CONSTANTS
  Addr,         \* addresses of expressions
  Handle,       \* the client's variables of type SharedExpr, or Bool
  Symbol,       \* names of Boolean constants
  Null,         \* the null pointer
  MaxLeaks      \* how often reset() is called

ASSUME ExpressionsAssumption ==
  /\ Null \notin Addr \union Symbol
  /\ Addr \intersect Symbol = {}
  /\ IsFiniteSet(Addr)
  /\ IsFiniteSet(Handle)

VARIABLES
  heap,     \* the expression at each address, or NoExpr
  handle,   \* m_ptr of each of the client's variables
  consing,  \* was ENABLE_HASH_CONS defined?
  store,    \* the expression store: addresses
  leaked,   \* history: references lost by reset(), per address
  todo      \* what the destructor or the function that is running has still
            \* to do, next step first

expr_vars == <<heap, handle, consing, store, leaked, todo>>

(* An expression but for its reference count *)
Shape(kind, name, args) == [kind |-> kind, name |-> name, args |-> args]

ShapeAt(a) == Shape(heap[a].kind, heap[a].name, heap[a].args)

(* A new expression has no references yet *)
Unreferenced(s) == [kind |-> s.kind, name |-> s.name, args |-> s.args, refs |-> 0]

NoExpr == Unreferenced(Shape("none", Null, <<>>))

IsFree(a) == heap[a].kind = "none"

Step(what, a) == [what |-> what, addr |-> a]

Idle == todo = <<>>

ExprInit ==
  /\ heap = [a \in Addr |-> NoExpr]
  /\ handle = [h \in Handle |-> Null]
  /\ consing \in BOOLEAN
  /\ store = {}
  /\ leaked = [a \in Addr |-> 0]
  /\ todo = <<>>

----------------------------------------------------------------------------
Occurrences(seq, x) == Cardinality({i \in DOMAIN seq : seq[i] = x})

(* inc() of every pointer in a sequence *)
Inc(h, ptrs) == [a \in Addr |-> [h[a] EXCEPT !.refs = @ + Occurrences(ptrs, a)]]

(* dec() of a pointer, as something to do *)
Dec(ptr) == IF ptr = Null THEN <<>> ELSE <<Step("dec", ptr)>>

(* operator=(const SharedExpr&) *)
Copy(v, w) ==
  /\ Idle
  /\ heap' = Inc(heap, <<handle[w]>>)
  /\ handle' = [handle EXCEPT ![v] = handle[w]]
  /\ todo' = Dec(handle[v])
  /\ UNCHANGED <<consing, store, leaked>>

(* A fault: the other pointer is not set to null *)
CopiedTo(v, w) == [handle EXCEPT ![v] = handle[w]]

(* operator=(SharedExpr&&); the variable assigned to itself becomes null *)
MovedTo(v, w) == [handle EXCEPT ![v] = handle[w], ![w] = Null]

Move(v, w) ==
  /\ Idle
  /\ v # w
  /\ handle' = MovedTo(v, w)
  /\ todo' = Dec(handle[v])
  /\ UNCHANGED <<heap, consing, store, leaked>>

(* ~SharedExpr() *)
Drop(v) ==
  /\ Idle
  /\ handle[v] # Null
  /\ handle' = [handle EXCEPT ![v] = Null]
  /\ todo' = Dec(handle[v])
  /\ UNCHANGED <<heap, consing, store, leaked>>

(* reset() sets the pointer to null, and does not call dec() *)
ResetHandle(v) ==
  /\ Idle
  /\ handle[v] # Null
  /\ FoldFunction(+, 0, leaked) < MaxLeaks
  /\ leaked' = [leaked EXCEPT ![handle[v]] = @ + 1]
  /\ handle' = [handle EXCEPT ![v] = Null]
  /\ UNCHANGED <<heap, consing, store, todo>>

----------------------------------------------------------------------------
(* The expressions in the store that is_equal() to what is being made *)
Interned(shape) == {a \in store : ShapeAt(a) = shape}

(* v = make_shared_expr<...>(...): with hash consing, an equal expression  *)
(* if there is one                                                         *)
make_shared_expr(v, shape) ==
  /\ Idle
  /\ IF consing /\ Interned(shape) # {}
     THEN \E a \in Interned(shape) :
            /\ heap' = Inc(heap, <<a>>)
            /\ handle' = [handle EXCEPT ![v] = a]
            /\ UNCHANGED store
     ELSE \E a \in {b \in Addr : IsFree(b)} :
            /\ heap' = Inc([heap EXCEPT ![a] = Unreferenced(shape)], <<a>> \o shape.args)
            /\ handle' = [handle EXCEPT ![v] = a]
            /\ store' = IF consing THEN store \union {a} ELSE store
  /\ todo' = Dec(handle[v])
  /\ UNCHANGED <<consing, leaked>>

(* any<Bool>(s), !u, u && w and u || w *)
NewSymbol(v, s) == make_shared_expr(v, Shape("symbol", s, <<>>))

NewNegation(v, u) ==
  /\ handle[u] # Null
  /\ make_shared_expr(v, Shape("lnot", Null, <<handle[u]>>))

NewBinary(v, op, u, w) ==
  /\ handle[u] # Null
  /\ handle[w] # Null
  /\ make_shared_expr(v, Shape(op, Null, <<handle[u], handle[w]>>))

----------------------------------------------------------------------------
(* Destructors *)

Doing(what) == todo # <<>> /\ Head(todo).what = what

It == Head(todo).addr

(* A fault: what has the same hash value is taken to be equal *)
DeletedWithSameHash(a) == store \ {b \in store : heap[b].kind = heap[a].kind}

(* delete_from_store() erases the expression that is_equal() to this one *)
DeletedFromStore(a) == store \ {b \in store : ShapeAt(b) = ShapeAt(a)}

(* What ~UnaryExpr() and ~BinaryExpr() do after delete_from_store(): the   *)
(* members' destructors, the last one first, and then ~Expr()              *)
Destruction(a) ==
  [i \in DOMAIN heap[a].args |-> Step("dec", Reverse(heap[a].args)[i])]
    \o <<Step("delete", a)>>

(* dec() *)
dec ==
  /\ Doing("dec")
  /\ heap' = [heap EXCEPT ![It].refs = @ - 1]
  /\ IF heap[It].refs > 1
     THEN /\ todo' = Tail(todo)
          /\ UNCHANGED store
     ELSE /\ store' = IF consing THEN DeletedFromStore(It) ELSE store
          /\ todo' = Destruction(It) \o Tail(todo)
  /\ UNCHANGED <<handle, consing, leaked>>

(* ~Expr(), but for the solvers it notifies; the address is free again *)
DeleteExpr ==
  /\ Doing("delete")
  /\ heap' = [heap EXCEPT ![It] = NoExpr]
  /\ todo' = Tail(todo)
  /\ UNCHANGED <<handle, consing, store, leaked>>

----------------------------------------------------------------------------
(* What the client does with expressions alone, and binary ones of these   *)
(* kinds: "land", "lor"                                                    *)
ExprNext(connectives) ==
  \E v \in Handle :
    \/ \E w \in Handle : Copy(v, w) \/ Move(v, w) \/ NewNegation(v, w)
    \/ \E s \in Symbol : NewSymbol(v, s)
    \/ \E op \in connectives, u, w \in Handle : NewBinary(v, op, u, w)
    \/ Drop(v)
    \/ ResetHandle(v)

(* The meaning of each expression, over the symbols.  Where a pointer      *)
(* dangles there is none; the empty formula stands for that.               *)
Nothing == [over |-> {}, models |-> {}]

Meaning[a \in Addr] ==
  LET arg(i) == Meaning[heap[a].args[i]]
  IN  CASE heap[a].kind = "symbol" -> Atom(heap[a].name)
        [] heap[a].kind = "lnot" -> Negation(arg(1))
        [] heap[a].kind = "land" -> Conjunction(arg(1), arg(2))
        [] heap[a].kind = "lor" -> Disjunction(arg(1), arg(2))
        [] OTHER -> Nothing
=============================================================================
