--------------------------- MODULE MCEventPrograms ---------------------------
(* Small multi-threaded programs.                                          *)
EXTENDS FrontEnd

X == 1
Y == 2
M == 3
S == 4
A == 5
C == 6
D == 7

Equation(variable, value) == {<<variable, value>>}

(* A program whose main thread starts the others and waits for them        *)
Run(before, children, after) ==
  LET n == Len(children) + 1
      starts == [t \in 2 .. n |-> append_thread_begin_event(t)]
      joins == [t \in 2 .. n |-> append_join_event(t)]
      all(f) == FlattenSeq([k \in 1 .. n - 1 |-> f[k + 1]])
  IN  <<Recorded(1, before \o all(starts) \o all(joins) \o after)>>
      \o [k \in 1 .. n - 1 |-> Child(k + 1, children[k])]

Checked(threads) ==
  [threads |-> threads, event |-> EventTable(threads), inputs |-> {0}, values |-> {0, 1}, guard |-> {},
   assertions |-> {}, errors |-> {{}}, sections |-> {}, queries |-> {"check"}]

WithInput(p) == [p EXCEPT !.inputs = {0, 1}]

Communicating(threads) == [Checked(threads) EXCEPT !.queries = {"check", "check_deadlock"}]

(* Each thread writes one variable and reads the other. *)
StoreBuffering ==
  Checked(Run(Set(X, 0) \o Set(Y, 0),
              <<Set(X, 1) \o Get(Y), Set(Y, 1) \o Get(X)>>, << >>))

(* Which of two variables is written depends on the input. *)
EitherIsWritten ==
  WithInput(Checked(Run(Set(X, 0) \o Set(Y, 0),
    <<Then(Equation(0, 1)) \o Set(X, 1) \o Else(Equation(0, 0)) \o Set(Y, 1) \o EndIf,
      Get(Y) \o Get(X)>>, << >>)))

(* A thread writes only if it has read what another one wrote. *)
ReadThenWrite ==
  Checked(Run(Set(X, 0),
    <<Set(X, 1), Get(X) \o Then(Equation(31, 1)) \o Set(X, 0) \o EndIf>>, Get(X)))

(* Two threads increment a counter, and an update may be lost. *)
TwoIncrements ==
  [Checked(Run(Set(X, 0), <<Increment(X), Increment(X)>>, Get(X)))
     EXCEPT !.values = 0 .. 2]

(* The second of a chord of threads sees what the first one did. *)
ChordOfTwo ==
  Checked(<<Recorded(1, Set(X, 0) \o append_thread_begin_event(2)
                        \o append_thread_begin_event(3) \o append_join_event(3)),
            Child(2, CopyFrom(Y, X) \o Set(X, 1)),
            NextInChord(3, Get(X))>>)

BothAtBarrier ==
  Checked(Run(Set(X, 0), <<Set(X, 1) \o barrier(1) \o Get(X),
                           Get(X) \o barrier(1) \o Set(X, 0)>>, << >>))

(* Two threads that lock a mutex, one of them twice *)
Section(t, lock, unlock) == [lock |-> 10 * t + lock, unlock |-> 10 * t + unlock]

ThreeSections ==
  [Checked(Run(Set(M, 0), <<Lock(M, 2) \o Unlock(M),
                            Lock(M, 3) \o Unlock(M) \o Lock(M, 3) \o Unlock(M)>>, << >>))
     EXCEPT !.values = {2, 3},
            !.assertions = {<<22, 2>>, <<32, 3>>, <<34, 3>>},
            !.sections = {Section(2, 1, 2), Section(3, 1, 2), Section(3, 3, 4)}]

(* Two threads push, one of them on one branch only, and both pop. *)
PushAndPop ==
  WithInput(Checked(Run(Push(S, 0),
    <<Then(Equation(0, 1)) \o Push(S, 1) \o EndIf \o PopOff(S),
      Push(S, 2) \o PopOff(S)>>, << >>)))

PopInOrder ==
  Checked(Run(<< >>, <<Push(S, 1) \o Push(S, 0), PopOff(S) \o PopOff(S)>>, << >>))

(* Stores and loads at the same offset or not, by the input *)
StoreAndLoad ==
  WithInput(Checked(Run(SetElement(A, Const(0), 1),
    <<SetElement(A, Var(0), 2) \o GetElement(A, Const(0)),
      GetElement(A, Var(0)) \o SetElement(A, Const(1), 3)>>, << >>)))

(* Either of two senders may meet the first receive. *)
TwoSenders ==
  Communicating(Run(<< >>, <<Send(C, 0), Send(C, 1), Recv(C) \o Recv(C)>>, << >>))

(* The second receive is stuck if the first one meets the wrong sender. *)
WrongSender ==
  Communicating(Run(<< >>, <<Send(C, 0), Send(C, 1) \o Send(D, 1), Recv(C) \o Recv(D)>>,
                    << >>))

(* What a thread receives decides whether it answers. *)
ReceiveThenAnswer ==
  WithInput(Checked(Run(Set(X, 0),
    <<Recv(C) \o Then(Equation(21, 1)) \o Set(X, 1) \o Send(D, 1) \o EndIf,
      SendTerm(C, Var(0)) \o Then(Equation(0, 1)) \o Recv(D) \o EndIf \o Get(X)>>,
    << >>)))

(* What a thread sends is what it has read. *)
SendWhatIsRead ==
  Checked(Run(Set(X, 0), <<SendExternal(C, X), Set(X, 1) \o Recv(C)>>, << >>))

(* A message from anyone, then one from a certain thread *)
AnyThenFrom ==
  Communicating(Run(<< >>, <<RecvAny \o RecvFrom(3), SendTo(2, 0), SendTo(2, 1)>>, << >>))

(* Two threads that meet once and then wait for each other *)
MeetThenWait ==
  Communicating(Run(<< >>, <<Send(C, 1) \o Recv(D) \o Send(C, 0),
                             Recv(C) \o Recv(C) \o Send(D, 0)>>, << >>))

(* Two threads each waiting to receive before they send *)
CrossedReceives ==
  Communicating(Run(<< >>, <<Recv(C) \o Send(D, 0), Recv(D) \o Send(C, 0)>>, << >>))

(* The wildcard of thread 2 is matchable with a message for thread 3. *)
MessageForAnother ==
  Communicating(Run(<< >>, <<RecvAny, RecvAny, SendTo(3, 1) \o SendTo(2, 0)>>, << >>))

(* Two writers, and two readers that might disagree on their order *)
IndependentReads ==
  Checked(Run(Set(X, 0) \o Set(Y, 0),
              <<Set(X, 1), Set(Y, 1), Get(X) \o Get(Y), Get(Y) \o Get(X)>>, << >>))

(* Three pushes and three pops, one value copied from shared memory *)
DeepStack ==
  [Checked(Run(Set(X, 2),
     <<PushExternal(S, X) \o Push(S, 1) \o PopOff(S), Push(S, 0) \o PopOff(S) \o PopOff(S)>>,
     << >>)) EXCEPT !.values = 0 .. 2]

(* The path on which the input is one, and a counter that returns what it  *)
(* was before                                                              *)
Tickets ==
  [WithInput(Checked(Run(Set(X, 0), <<PostIncrement(X, Y, 21), PostIncrement(X, D, 31)>>,
                         Get(X))))
     EXCEPT !.values = 0 .. 2, !.guard = {<<0, 1>>}]

AllPrograms ==
  {StoreBuffering, EitherIsWritten, ReadThenWrite, TwoIncrements, ChordOfTwo,
   BothAtBarrier, ThreeSections, PushAndPop, PopInOrder, StoreAndLoad, TwoSenders,
   ReceiveThenAnswer, SendWhatIsRead, AnyThenFrom, MeetThenWait}
=============================================================================
