--------------------------- MODULE HandlesProofs ---------------------------
(***************************************************************************)
(* Theorems about CapiLock, for every program that uses the lock, and      *)
(* about Handles, which is one, for every number of threads, variables and *)
(* ids: calls exclude one another, a pipeline belongs to one list, no id   *)
(* is closed under its holder, and no reference is lost unnoticed.         *)
(*                                                                         *)
(* The references are counted by what the places stand for (Accounted):    *)
(* each thread is in an account, and what it has still to do leads from    *)
(* there to an end of its operation (an outline), an exception or not.     *)
(***************************************************************************)
EXTENDS Handles, TLAPS, SequenceTheorems, FiniteSetTheorems, FunctionTheorems, Integers

(***************************************************************************)
(* Outlines                                                                *)
(*                                                                         *)
(* Lemmas about the operations of Handles: what each does to the           *)
(* references of the ids it handles, step by step.                         *)
(*                                                                         *)
(* An operation takes and gives back references in an order of its own:    *)
(* between the assignment of a copy and its H5Iinc_ref the copy holds an   *)
(* id without a reference, and two behind H5Iinc_ref of a temporary that   *)
(* is to be handed over.  An account of a thread gives for each place of   *)
(* the thread the references it stands for; an outline leads from an       *)
(* account to another by the steps of an operation.  Every operation has   *)
(* an outline from any account a thread may begin in to one in which each  *)
(* variable stands for one reference or none and the temporaries for none, *)
(* and so has what an exception leads to, wherever it may arise.           *)
(***************************************************************************)

(***************************************************************************)
(* Accounts                                                                *)
(***************************************************************************)
\* What a thread can name: its variables and its two temporaries.
Names == Lists \cup Datasets \cup {"temp", "raw"}
Mine(t) == {t} \X Names
Reach(t) == Mine(t) \cup Shared

\* The references a place stands for; -1: it holds no id.
Weights == [Places -> -1 .. 3]

\* depth: the locks alive; twin: two places that hold the same id.
Accounts == [depth : 0 .. MaxDepth, weight : Weights, twin : Places \X Places]
Account(d, w, tw) == [depth |-> d, weight |-> w, twin |-> tw]
NoTwin == <<SharedList, SharedList>>

\* What the steps of the operations are made of.
Steps ==
    [do : {"lock", "unlock"}] \cup [do : {"take"}, at : Places, from : Places]
        \cup [do : {"drop"}, at : Places] \cup [do : {"abandon"}, at : Places, count : Nat]
        \cup [do : {"close", "retain", "create", "set", "derive", "describe", "transfer"},
              at : Places, from : Places, checked : BOOLEAN]

\* A place whose id is known to be open: it stands for a reference, or it is
\* the copy of a place that does.
Backed(a, p) ==
    \/ a.weight[p] > 0
    \/ a.weight[p] = 0 /\ a.twin[1] = p /\ a.weight[a.twin[2]] > 0

\* A lock comes or goes: nothing but the depth changes.
LockMoves(a, s, b) ==
    \/ s = Locking /\ a.depth < MaxDepth /\ b = Account(a.depth + 1, a.weight, a.twin)
    \/ s = Unlocking /\ a.depth > 0 /\ b = Account(a.depth - 1, a.weight, a.twin)

\* One reference moves with the id, or none.
TakeMoves(t, a, s, b) ==
    \E p \in Mine(t), q \in Reach(t), n \in 0 .. 1 :
        /\ s = Taking(p, q) /\ p # q
        /\ a.weight[p] <= 0 /\ n <= a.weight[q] /\ (q \in Shared => n = 0)
        /\ b = Account(a.depth, [[a.weight EXCEPT ![p] = n] EXCEPT ![q] = a.weight[q] - n], <<p, q>>)

\* A place is emptied that stands for no reference, or is forgotten with n.
DropMoves(t, a, s, b) ==
    \E p \in Mine(t) :
        /\ b = Account(a.depth, [a.weight EXCEPT ![p] = -1], NoTwin)
        /\ \/ s = Dropping(p) /\ a.weight[p] <= 0
           \/ \E n \in 1 .. 2 : s = Abandoning(p, n) /\ a.weight[p] \in {n, -1}

\* One reference less behind p, if it holds an id.
Lower(w, p) == [w EXCEPT ![p] = IF w[p] = -1 THEN -1 ELSE w[p] - 1]

\* A reference is given back: p must have one, or hold nothing.
CloseMoves(t, a, s, b) ==
    \E p \in Mine(t) :
        /\ s = Closing(p) /\ a.weight[p] # 0
        /\ b = Account(a.depth, Lower(a.weight, p), a.twin)

\* A reference more, of an id that is known to be open.
RetainMoves(t, a, s, b) ==
    \E p \in Mine(t) :
        /\ s = Retaining(p) /\ a.weight[p] < 3 /\ Backed(a, p)
        /\ b = Account(a.depth, [a.weight EXCEPT ![p] = a.weight[p] + 1], a.twin)

\* A call that delivers a new id, if it does not fail.
OpenMoves(t, a, s, b) ==
    \E p \in Mine(t), q \in Reach(t), checked \in BOOLEAN :
        /\ s = Call("create", p, q, checked) \/ s = Call("derive", p, q, checked)
        /\ a.weight[p] = -1 /\ b = Account(a.depth, [a.weight EXCEPT ![p] = 1], NoTwin)

\* A call that changes no reference of a place.
UseMoves(t, a, s, b) ==
    /\ \E q \in Reach(t), checked \in BOOLEAN :
          s = Setting(q) \/ s = Describing(q) \/ s = Call("transfer", q, q, checked)
    /\ b = a

\* Step s of thread t takes account a to b.
Moves(t, a, s, b) ==
    \/ LockMoves(a, s, b) \/ TakeMoves(t, a, s, b) \/ DropMoves(t, a, s, b)
    \/ CloseMoves(t, a, s, b) \/ RetainMoves(t, a, s, b)
    \/ OpenMoves(t, a, s, b) \/ UseMoves(t, a, s, b)

\* A call whose failure is an exception.
Fails(s) == IsCall(s) /\ s.checked

\* The steps take account a to b, and what can fail does so in an account of X.
Outline(t, a, steps, b, X) ==
    /\ steps \in Seq(Steps)
    /\ \E ann \in [1 .. Len(steps) + 1 -> Accounts] :
        /\ ann[1] = a /\ ann[Len(steps) + 1] = b
        /\ \A k \in 1 .. Len(steps) :
              /\ Moves(t, ann[k], steps[k], ann[k + 1])
              /\ Fails(steps[k]) => ann[k] \in X

(***************************************************************************)
(* Outlines of sequences                                                   *)
(***************************************************************************)
\* What a step of a thread writes to and reads from is a place.
LEMMA ReachInPlaces ==
    ASSUME NEW t \in Threads
    PROVE  /\ Mine(t) \subseteq Places /\ Shared \subseteq Places /\ Reach(t) \subseteq Places
           /\ Mine(t) \cap Shared = {}
           /\ Temp(t) \in Mine(t) /\ Raw(t) \in Mine(t) /\ Temp(t) # Raw(t)
           /\ VariablesOf(t) \subseteq Mine(t)
           /\ Temp(t) \notin VariablesOf(t) /\ Raw(t) \notin VariablesOf(t)
           /\ Mine(t) = VariablesOf(t) \cup {Temp(t), Raw(t)}
           /\ NoTwin \in Places \X Places
<1>1. Names = Lists \cup Datasets \cup {"temp", "raw"}
  BY DEF Names
<1>2. Mine(t) \subseteq Places /\ Shared \subseteq Places
  BY DEF Mine, Names, Places, Variables
<1>3. Mine(t) \cap Shared = {}
  BY LockAssumption DEF Mine, Shared, SharedList, SharedDataset
<1>4. Temp(t) \in Mine(t) /\ Raw(t) \in Mine(t) /\ Temp(t) # Raw(t)
  BY DEF Mine, Names, Temp, Raw
<1>5. /\ VariablesOf(t) = {t} \X (Lists \cup Datasets)
      /\ Temp(t) \notin VariablesOf(t) /\ Raw(t) \notin VariablesOf(t)
  BY HandlesAssumption DEF VariablesOf, ListsOf, DatasetsOf, Temp, Raw
<1>6. Mine(t) = VariablesOf(t) \cup {Temp(t), Raw(t)}
  BY <1>5 DEF Mine, Names, Temp, Raw
<1>7. NoTwin \in Places \X Places
  BY <1>2 DEF NoTwin, Shared
<1> QED
  BY <1>2, <1>3, <1>4, <1>5, <1>6, <1>7 DEF Reach

\* The steps an account can make are steps.
LEMMA MovesStep ==
    ASSUME NEW t \in Threads, NEW a, NEW s, NEW b, Moves(t, a, s, b)
    PROVE  s \in Steps
<1>1. Mine(t) \subseteq Places /\ Reach(t) \subseteq Places
  BY ReachInPlaces
<1>2. CASE LockMoves(a, s, b)
  BY <1>2 DEF LockMoves, Locking, Unlocking, Steps
<1>3. CASE TakeMoves(t, a, s, b)
  BY <1>1, <1>3 DEF TakeMoves, Taking, Steps
<1>4. CASE DropMoves(t, a, s, b)
  <2>1. PICK p \in Places : s = Dropping(p) \/ \E n \in 1 .. 2 : s = Abandoning(p, n)
    BY <1>1, <1>4 DEF DropMoves
  <2>2. CASE s = Dropping(p)
    BY <2>2 DEF Dropping, Steps
  <2>3. ASSUME NEW n \in 1 .. 2, s = Abandoning(p, n)
        PROVE  s \in Steps
    <3>1. s \in [do : {"abandon"}, at : Places, count : Nat]
      BY <2>3 DEF Abandoning
    <3> QED
      BY <3>1 DEF Steps
  <2> QED
    BY <2>1, <2>2, <2>3
<1>c. ASSUME NEW name \in {"close", "retain", "create", "set", "derive", "describe", "transfer"},
              NEW p \in Places, NEW q \in Places, NEW checked \in BOOLEAN
      PROVE  Call(name, p, q, checked) \in Steps
  BY DEF Call, Steps
<1>5. CASE CloseMoves(t, a, s, b) \/ RetainMoves(t, a, s, b)
  <2>1. PICK p \in Places : s = Call("close", p, p, FALSE) \/ s = Call("retain", p, p, FALSE)
    BY <1>1, <1>5 DEF CloseMoves, RetainMoves, Closing, Retaining
  <2> QED
    BY <1>c, <2>1
<1>6. CASE OpenMoves(t, a, s, b)
  <2>1. PICK p \in Places, q \in Places, checked \in BOOLEAN :
           s = Call("create", p, q, checked) \/ s = Call("derive", p, q, checked)
    BY <1>1, <1>6 DEF OpenMoves
  <2> QED
    BY <1>c, <2>1
<1>7. CASE UseMoves(t, a, s, b)
  <2>1. PICK q \in Places, checked \in BOOLEAN :
           \/ s = Call("set", q, q, TRUE) \/ s = Call("describe", q, q, FALSE)
           \/ s = Call("transfer", q, q, checked)
    BY <1>1, <1>7 DEF UseMoves, Setting, Describing
  <2> QED
    BY <1>c, <2>1
<1> QED
  BY <1>2, <1>3, <1>4, <1>5, <1>6, <1>7 DEF Moves

\* Nothing to do: the account stays.
LEMMA OutlineNone ==
    ASSUME NEW t, NEW a, NEW b, NEW X
    PROVE  Outline(t, a, <<>>, b, X) <=> a \in Accounts /\ b = a
<1>1. ASSUME Outline(t, a, <<>>, b, X)
      PROVE  a \in Accounts /\ b = a
  BY <1>1 DEF Outline
<1>2. ASSUME a \in Accounts, b = a
      PROVE  Outline(t, a, <<>>, b, X)
  <2> DEFINE ann == [k \in 1 .. Len(<<>>) + 1 |-> a]
  <2>1. ann \in [1 .. Len(<<>>) + 1 -> Accounts] /\ ann[1] = a /\ ann[Len(<<>>) + 1] = a
    BY <1>2
  <2>2. \A k \in 1 .. Len(<<>>) : FALSE
    OBVIOUS
  <2>3. <<>> \in Seq(Steps)
    OBVIOUS
  <2> HIDE DEF ann
  <2> QED
    BY <1>2, <2>1, <2>2, <2>3, Zenon DEF Outline
<1> QED
  BY <1>1, <1>2

\* One step.
LEMMA OutlineOne ==
    ASSUME NEW t \in Threads, NEW a \in Accounts, NEW b \in Accounts, NEW s, NEW X,
           Moves(t, a, s, b), Fails(s) => a \in X
    PROVE  Outline(t, a, <<s>>, b, X)
<1> DEFINE ann == [k \in 1 .. Len(<<s>>) + 1 |-> IF k = 1 THEN a ELSE b]
<1>1. /\ ann \in [1 .. Len(<<s>>) + 1 -> Accounts] /\ ann[1] = a /\ ann[2] = b
      /\ Len(<<s>>) = 1 /\ <<s>>[1] = s
  OBVIOUS
<1>2. ASSUME NEW k \in 1 .. Len(<<s>>)
      PROVE  Moves(t, ann[k], <<s>>[k], ann[k + 1]) /\ (Fails(<<s>>[k]) => ann[k] \in X)
  <2>1. k = 1
    BY <1>1
  <2>2. ann[k] = a /\ ann[k + 1] = b /\ <<s>>[k] = s
    BY <1>1, <2>1
  <2> QED
    BY <2>2, Zenon
<1> HIDE DEF ann
<1>3. ann[Len(<<s>>) + 1] = b
  BY <1>1
<1>4. <<s>> \in Seq(Steps)
  BY MovesStep
<1> QED
  BY <1>1, <1>2, <1>3, <1>4, Zenon DEF Outline

\* Steps behind steps.
LEMMA OutlineJoin ==
    ASSUME NEW t, NEW a, NEW b, NEW c, NEW X, NEW s1, NEW s2,
           Outline(t, a, s1, b, X), Outline(t, b, s2, c, X)
    PROVE  Outline(t, a, s1 \o s2, c, X)
<1> DEFINE m == Len(s1)
           n == Len(s2)
<1>1. PICK f \in [1 .. m + 1 -> Accounts] :
         /\ f[1] = a /\ f[m + 1] = b
         /\ \A k \in 1 .. m : Moves(t, f[k], s1[k], f[k + 1]) /\ (Fails(s1[k]) => f[k] \in X)
  BY DEF Outline
<1>2. PICK g \in [1 .. n + 1 -> Accounts] :
         /\ g[1] = b /\ g[n + 1] = c
         /\ \A k \in 1 .. n : Moves(t, g[k], s2[k], g[k + 1]) /\ (Fails(s2[k]) => g[k] \in X)
  BY DEF Outline
<1>s. s1 \in Seq(Steps) /\ s2 \in Seq(Steps)
  BY DEF Outline
<1>3. /\ m \in Nat /\ n \in Nat /\ Len(s1 \o s2) = m + n /\ s1 \o s2 \in Seq(Steps)
      /\ \A k \in 1 .. m : (s1 \o s2)[k] = s1[k]
      /\ \A k \in 1 .. m + n : k > m => (s1 \o s2)[k] = s2[k - m]
  BY <1>s
<1>n. m \in Nat /\ n \in Nat
  BY <1>3
<1> DEFINE h == [k \in 1 .. m + n + 1 |-> IF k <= m THEN f[k] ELSE g[k - m]]
<1> HIDE DEF m, n
<1>4. h \in [1 .. m + n + 1 -> Accounts]
  <2> SUFFICES ASSUME NEW k \in 1 .. m + n + 1
               PROVE  (IF k <= m THEN f[k] ELSE g[k - m]) \in Accounts
    BY Zenon DEF h
  <2>1. k <= m => k \in 1 .. m + 1
    BY <1>3
  <2>2. ~(k <= m) => k - m \in 1 .. n + 1
    BY <1>3
  <2> QED
    BY <2>1, <2>2
<1>5. h[1] = a /\ h[m + n + 1] = c
  BY <1>1, <1>2, <1>3
<1>6. ASSUME NEW k \in 1 .. m + n
      PROVE  Moves(t, h[k], (s1 \o s2)[k], h[k + 1]) /\ (Fails((s1 \o s2)[k]) => h[k] \in X)
  <2>1. CASE k <= m
    <3>1. k \in 1 .. m /\ (s1 \o s2)[k] = s1[k] /\ h[k] = f[k]
      BY <1>3, <2>1
    <3>2. h[k + 1] = f[k + 1]
      <4>1. CASE k = m
        <5>1. h[m + 1] = g[1] /\ f[m + 1] = g[1]
          BY <1>1, <1>2, <1>3
        <5> QED
          BY <4>1, <5>1
      <4>2. CASE k < m
        BY <1>3, <4>2
      <4> QED
        BY <1>3, <2>1, <4>1, <4>2
    <3> QED
      BY <1>1, <3>1, <3>2, Zenon
  <2>2. CASE k > m
    <3>1. /\ k - m \in 1 .. n /\ (k + 1) - m = (k - m) + 1 /\ ~(k <= m) /\ ~(k + 1 <= m)
          /\ k \in 1 .. m + n + 1 /\ k + 1 \in 1 .. m + n + 1
      BY <1>n, <2>2
    <3>2. h[k] = g[k - m]
      BY <3>1, Zenon
    <3>3. h[k + 1] = g[(k - m) + 1]
      BY <3>1, Zenon
    <3>4. (s1 \o s2)[k] = s2[k - m]
      BY <1>3, <2>2, Zenon
    <3> QED
      BY <1>2, <3>1, <3>2, <3>3, <3>4, Zenon
  <2> QED
    BY <1>3, <2>1, <2>2
<1> HIDE DEF h
<1> QED
  BY <1>3, <1>4, <1>5, <1>6, Zenon DEF Outline

\* The first step, and the others.
LEMMA OutlineFirst ==
    ASSUME NEW t, NEW a, NEW b, NEW X, NEW steps, steps # <<>>, Outline(t, a, steps, b, X)
    PROVE  /\ Head(steps) \in Steps /\ (Fails(Head(steps)) => a \in X)
           /\ \E m \in Accounts : Moves(t, a, Head(steps), m) /\ Outline(t, m, Tail(steps), b, X)
<1> DEFINE n == Len(steps)
<1>1. PICK f \in [1 .. n + 1 -> Accounts] :
         /\ f[1] = a /\ f[n + 1] = b
         /\ \A k \in 1 .. n : Moves(t, f[k], steps[k], f[k + 1]) /\ (Fails(steps[k]) => f[k] \in X)
  BY DEF Outline
<1>s. steps \in Seq(Steps)
  BY DEF Outline
<1>2. /\ n \in Nat /\ n >= 1 /\ Head(steps) = steps[1] /\ Len(Tail(steps)) = n - 1
      /\ Tail(steps) \in Seq(Steps) /\ Head(steps) \in Steps
      /\ \A k \in 1 .. n - 1 : Tail(steps)[k] = steps[k + 1]
  BY <1>s
<1> HIDE DEF n
<1> DEFINE g == [k \in 1 .. n |-> f[k + 1]]
<1>3. g \in [1 .. (n - 1) + 1 -> Accounts] /\ g[1] = f[2] /\ g[(n - 1) + 1] = b
  BY <1>1, <1>2
<1>4. ASSUME NEW k \in 1 .. n - 1
      PROVE  /\ Moves(t, g[k], Tail(steps)[k], g[k + 1])
             /\ Fails(Tail(steps)[k]) => g[k] \in X
  <2>1. g[k] = f[k + 1] /\ g[k + 1] = f[(k + 1) + 1] /\ Tail(steps)[k] = steps[k + 1] /\ k + 1 \in 1 .. n
    BY <1>2
  <2> QED
    BY <1>1, <2>1, Zenon
<1> HIDE DEF g
<1>5. Outline(t, f[2], Tail(steps), b, X)
  BY <1>2, <1>3, <1>4, Zenon DEF Outline
<1>6. Moves(t, a, Head(steps), f[2]) /\ (Fails(Head(steps)) => a \in X)
  <2>1. 1 \in 1 .. n /\ 1 + 1 = 2
    BY <1>2
  <2> QED
    BY <1>1, <1>2, <2>1
<1>7. f[2] \in Accounts
  BY <1>1, <1>2
<1> QED
  BY <1>2, <1>5, <1>6, <1>7, Zenon

\* A tuple of steps begins with its first.
LEMMA Tuples ==
    ASSUME NEW a, NEW b, NEW c, NEW d, NEW e
    PROVE  /\ <<a, b>> = <<a>> \o <<b>>
           /\ <<a, b, c>> = <<a>> \o <<b, c>>
           /\ <<a, b, c, d>> = <<a>> \o <<b, c, d>>
           /\ <<a, b, c, d, e>> = <<a>> \o <<b, c, d, e>>
<1> DEFINE S == {a, b, c, d, e}
<1>1. /\ <<a>> \in Seq(S) /\ <<b>> \in Seq(S) /\ <<b, c>> \in Seq(S) /\ <<b, c, d>> \in Seq(S)
      /\ <<b, c, d, e>> \in Seq(S)
      /\ <<a, b>> \in Seq(S) /\ <<a, b, c>> \in Seq(S) /\ <<a, b, c, d>> \in Seq(S)
      /\ <<a, b, c, d, e>> \in Seq(S)
  OBVIOUS
<1>2. <<a, b>> = <<a>> \o <<b>>
  <2>1. Len(<<a>> \o <<b>>) = 2 /\ \A i \in 1 .. 2 : <<a, b>>[i] = (<<a>> \o <<b>>)[i]
    BY <1>1
  <2>2. Len(<<a, b>>) = 2 /\ <<a>> \o <<b>> \in Seq(S)
    BY <1>1
  <2> HIDE DEF S
  <2> QED
    BY <1>1, <2>1, <2>2, SeqEqual
<1>3. <<a, b, c>> = <<a>> \o <<b, c>>
  <2>1. Len(<<a>> \o <<b, c>>) = 3 /\ \A i \in 1 .. 3 : <<a, b, c>>[i] = (<<a>> \o <<b, c>>)[i]
    BY <1>1
  <2> QED
    BY <1>1, <2>1, SeqEqual
<1>4. <<a, b, c, d>> = <<a>> \o <<b, c, d>>
  <2>1. /\ Len(<<a>> \o <<b, c, d>>) = 4
        /\ \A i \in 1 .. 4 : <<a, b, c, d>>[i] = (<<a>> \o <<b, c, d>>)[i]
    BY <1>1
  <2> QED
    BY <1>1, <2>1, SeqEqual
<1>5. <<a, b, c, d, e>> = <<a>> \o <<b, c, d, e>>
  <2>1. /\ Len(<<a>> \o <<b, c, d, e>>) = 5
        /\ \A i \in 1 .. 5 : <<a, b, c, d, e>>[i] = (<<a>> \o <<b, c, d, e>>)[i]
    BY <1>1
  <2> QED
    BY <1>1, <2>1, SeqEqual
<1> QED
  BY <1>2, <1>3, <1>4, <1>5

(***************************************************************************)
(* Outlines of the steps                                                   *)
(***************************************************************************)
\* An account is one, with the fields it is made of.
LEMMA AccountFields ==
    ASSUME NEW d \in 0 .. MaxDepth, NEW w \in Weights, NEW tw \in Places \X Places
    PROVE  /\ Account(d, w, tw) \in Accounts
           /\ Account(d, w, tw).depth = d /\ Account(d, w, tw).weight = w
           /\ Account(d, w, tw).twin = tw
BY DEF Account, Accounts

\* The outermost lock and one within it.
LEMMA LockOutline ==
    ASSUME NEW t \in Threads, NEW d \in 0 .. MaxDepth, d < MaxDepth, NEW w \in Weights,
           NEW tw \in Places \X Places, NEW X
    PROVE  Outline(t, Account(d, w, tw), <<Locking>>, Account(d + 1, w, tw), X)
<1>1. d + 1 \in 0 .. MaxDepth
  BY DEF MaxDepth
<1>2. LockMoves(Account(d, w, tw), Locking, Account(d + 1, w, tw)) /\ ~Fails(Locking)
  BY AccountFields DEF LockMoves, Fails, IsCall, Locking
<1> QED
  BY <1>1, <1>2, AccountFields, OutlineOne DEF Moves

\* The release of a lock.
LEMMA UnlockOutline ==
    ASSUME NEW t \in Threads, NEW d \in 0 .. MaxDepth, d < MaxDepth, NEW w \in Weights,
           NEW tw \in Places \X Places, NEW X
    PROVE  Outline(t, Account(d + 1, w, tw), <<Unlocking>>, Account(d, w, tw), X)
<1>1. d + 1 \in 0 .. MaxDepth /\ d + 1 > 0 /\ (d + 1) - 1 = d
  BY DEF MaxDepth
<1>2. Account(d + 1, w, tw).depth = d + 1
  BY <1>1, AccountFields
<1>3. LockMoves(Account(d + 1, w, tw), Unlocking, Account(d, w, tw)) /\ ~Fails(Unlocking)
  BY <1>1, AccountFields DEF LockMoves, Fails, IsCall, Unlocking
<1> QED
  BY <1>1, <1>3, AccountFields, OutlineOne DEF Moves

\* Steps under a lock.
LEMMA UnderLockOutline ==
    ASSUME NEW t \in Threads, NEW d \in 0 .. MaxDepth, d < MaxDepth, NEW w \in Weights,
           NEW v \in Weights, NEW tw \in Places \X Places, NEW tv \in Places \X Places,
           NEW steps, NEW X,
           Outline(t, Account(d + 1, w, tw), steps, Account(d + 1, v, tv), X)
    PROVE  Outline(t, Account(d, w, tw), UnderLock(steps), Account(d, v, tv), X)
<1>1. Outline(t, Account(d, w, tw), <<Locking>> \o steps, Account(d + 1, v, tv), X)
  BY LockOutline, OutlineJoin
<1> QED
  BY <1>1, UnlockOutline, OutlineJoin DEF UnderLock

\* p.handle = q.handle, with n of the references.
LEMMA TakeOutline ==
    ASSUME NEW t \in Threads, NEW d \in 0 .. MaxDepth, NEW w \in Weights,
           NEW tw \in Places \X Places, NEW X,
           NEW p \in Mine(t), NEW q \in Reach(t), NEW n \in 0 .. 1, p # q,
           w[p] <= 0, n <= w[q], q \in Shared => n = 0
    PROVE  LET v == [[w EXCEPT ![p] = n] EXCEPT ![q] = w[q] - n] IN
           /\ v \in Weights
           /\ Outline(t, Account(d, w, tw), <<Taking(p, q)>>, Account(d, v, <<p, q>>), X)
<1> DEFINE v == [[w EXCEPT ![p] = n] EXCEPT ![q] = w[q] - n]
<1>1. p \in Places /\ q \in Places
  BY ReachInPlaces
<1>2. v \in Weights
  BY <1>1 DEF Weights
<1>f. /\ Account(d, w, tw).depth = d /\ Account(d, w, tw).weight = w
      /\ Account(d, w, tw).twin = tw
  BY AccountFields
<1>3. TakeMoves(t, Account(d, w, tw), Taking(p, q), Account(d, v, <<p, q>>))
  BY <1>f DEF TakeMoves
<1>4. ~Fails(Taking(p, q))
  BY DEF Fails, IsCall, Taking
<1> QED
  BY <1>1, <1>2, <1>3, <1>4, AccountFields, OutlineOne DEF Moves

\* p.handle = H5I_UNINIT behind a move or a close: no reference is lost.
LEMMA DropOutline ==
    ASSUME NEW t \in Threads, NEW d \in 0 .. MaxDepth, NEW w \in Weights,
           NEW tw \in Places \X Places, NEW X, NEW p \in Mine(t), w[p] <= 0
    PROVE  /\ [w EXCEPT ![p] = -1] \in Weights
           /\ Outline(t, Account(d, w, tw), <<Dropping(p)>>,
                      Account(d, [w EXCEPT ![p] = -1], NoTwin), X)
<1>1. p \in Places /\ NoTwin \in Places \X Places
  BY ReachInPlaces
<1>2. [w EXCEPT ![p] = -1] \in Weights
  BY <1>1 DEF Weights
<1>f. /\ Account(d, w, tw).depth = d /\ Account(d, w, tw).weight = w
      /\ Account(d, w, tw).twin = tw
  BY AccountFields
<1>3. DropMoves(t, Account(d, w, tw), Dropping(p), Account(d, [w EXCEPT ![p] = -1], NoTwin))
  BY <1>f DEF DropMoves
<1>4. ~Fails(Dropping(p))
  BY DEF Fails, IsCall, Dropping
<1> QED
  BY <1>1, <1>2, <1>3, <1>4, AccountFields, OutlineOne DEF Moves

\* A raw hid_t is forgotten with the references it stands for.
LEMMA AbandonOutline ==
    ASSUME NEW t \in Threads, NEW d \in 0 .. MaxDepth, NEW w \in Weights,
           NEW tw \in Places \X Places, NEW X, NEW p \in Mine(t), NEW n \in 1 .. 2,
           w[p] \in {n, -1}
    PROVE  /\ [w EXCEPT ![p] = -1] \in Weights
           /\ Outline(t, Account(d, w, tw), <<Abandoning(p, n)>>,
                      Account(d, [w EXCEPT ![p] = -1], NoTwin), X)
<1>1. p \in Places /\ NoTwin \in Places \X Places
  BY ReachInPlaces
<1>2. [w EXCEPT ![p] = -1] \in Weights
  BY <1>1 DEF Weights
<1>f. /\ Account(d, w, tw).depth = d /\ Account(d, w, tw).weight = w
      /\ Account(d, w, tw).twin = tw
  BY AccountFields
<1>3. DropMoves(t, Account(d, w, tw), Abandoning(p, n), Account(d, [w EXCEPT ![p] = -1], NoTwin))
  BY <1>f DEF DropMoves
<1>4. ~Fails(Abandoning(p, n))
  BY DEF Fails, IsCall, Abandoning
<1> QED
  BY <1>1, <1>2, <1>3, <1>4, AccountFields, OutlineOne DEF Moves

\* H5?close of what p holds gives one reference back.
LEMMA CloseOutline ==
    ASSUME NEW t \in Threads, NEW d \in 0 .. MaxDepth, NEW w \in Weights,
           NEW tw \in Places \X Places, NEW X, NEW p \in Mine(t), w[p] # 0
    PROVE  /\ Lower(w, p) \in Weights
           /\ Outline(t, Account(d, w, tw), <<Closing(p)>>, Account(d, Lower(w, p), tw), X)
<1>1. p \in Places
  BY ReachInPlaces
<1>2. Lower(w, p) \in Weights
  BY <1>1 DEF Weights, Lower
<1>f. /\ Account(d, w, tw).depth = d /\ Account(d, w, tw).weight = w
      /\ Account(d, w, tw).twin = tw
  BY AccountFields
<1>3. CloseMoves(t, Account(d, w, tw), Closing(p), Account(d, Lower(w, p), tw))
  BY <1>f DEF CloseMoves
<1>4. ~Fails(Closing(p))
  BY DEF Fails, Closing, Call
<1> QED
  BY <1>2, <1>3, <1>4, AccountFields, OutlineOne DEF Moves

\* H5Iinc_ref of what p holds, when the id is known to be open.
LEMMA RetainOutline ==
    ASSUME NEW t \in Threads, NEW d \in 0 .. MaxDepth, NEW w \in Weights,
           NEW tw \in Places \X Places, NEW X, NEW p \in Mine(t), w[p] < 3,
           Backed(Account(d, w, tw), p)
    PROVE  /\ [w EXCEPT ![p] = w[p] + 1] \in Weights
           /\ Outline(t, Account(d, w, tw), <<Retaining(p)>>,
                      Account(d, [w EXCEPT ![p] = w[p] + 1], tw), X)
<1>1. p \in Places
  BY ReachInPlaces
<1>0. Account(d, w, tw).weight = w
  BY AccountFields
<1>b. w[p] >= 0
  BY <1>0, <1>1 DEF Backed, Weights
<1>2. [w EXCEPT ![p] = w[p] + 1] \in Weights
  BY <1>1, <1>b DEF Weights
<1>f. /\ Account(d, w, tw).depth = d /\ Account(d, w, tw).weight = w
      /\ Account(d, w, tw).twin = tw
  BY AccountFields
<1>3. RetainMoves(t, Account(d, w, tw), Retaining(p), Account(d, [w EXCEPT ![p] = w[p] + 1], tw))
  BY <1>f DEF RetainMoves
<1>4. ~Fails(Retaining(p))
  BY DEF Fails, Retaining, Call
<1> QED
  BY <1>2, <1>3, <1>4, AccountFields, OutlineOne DEF Moves

\* H5Pcreate, H5Tcopy, H5Pcopy, H5Dopen2, H5Dget_access_plist
LEMMA OpenOutline ==
    ASSUME NEW t \in Threads, NEW d \in 0 .. MaxDepth, NEW w \in Weights,
           NEW tw \in Places \X Places, NEW X, NEW p \in Mine(t), NEW q \in Reach(t),
           NEW name \in {"create", "derive"}, NEW checked \in BOOLEAN,
           w[p] = -1, checked => Account(d, w, tw) \in X
    PROVE  /\ [w EXCEPT ![p] = 1] \in Weights
           /\ Outline(t, Account(d, w, tw), <<Call(name, p, q, checked)>>,
                      Account(d, [w EXCEPT ![p] = 1], NoTwin), X)
<1>1. p \in Places /\ NoTwin \in Places \X Places
  BY ReachInPlaces
<1>2. [w EXCEPT ![p] = 1] \in Weights
  BY <1>1 DEF Weights
<1>f. /\ Account(d, w, tw).depth = d /\ Account(d, w, tw).weight = w
      /\ Account(d, w, tw).twin = tw
  BY AccountFields
<1>3. OpenMoves(t, Account(d, w, tw), Call(name, p, q, checked),
                Account(d, [w EXCEPT ![p] = 1], NoTwin))
  BY <1>f DEF OpenMoves
<1>4. Fails(Call(name, p, q, checked)) => Account(d, w, tw) \in X
  BY DEF Fails, Call
<1> QED
  BY <1>1, <1>2, <1>3, <1>4, AccountFields, OutlineOne DEF Moves

\* A call that delivers no id to a place; what can fail does so in an account
\* that is taken care of.
LEMMA UseOutline ==
    ASSUME NEW t \in Threads, NEW d \in 0 .. MaxDepth, NEW w \in Weights,
           NEW tw \in Places \X Places, NEW X, NEW q \in Reach(t),
           NEW s \in {Setting(q), Describing(q), Caching(q), Transferring(q)},
           Account(d, w, tw) \in X \/ s = Describing(q)
    PROVE  Outline(t, Account(d, w, tw), <<s>>, Account(d, w, tw), X)
<1>1. UseMoves(t, Account(d, w, tw), s, Account(d, w, tw))
  <2>1. HasPipeline(q) \in BOOLEAN
    BY DEF HasPipeline
  <2> QED
    BY <2>1 DEF UseMoves, Caching, Transferring
<1>2. Fails(s) => Account(d, w, tw) \in X
  BY DEF Fails, Describing, Call
<1> QED
  BY <1>1, <1>2, AccountFields, OutlineOne DEF Moves

(***************************************************************************)
(* Outlines of the operations of the wrappers                              *)
(***************************************************************************)
\* Every variable stands for one reference or holds nothing, the temporaries
\* of a property and of an operation for m and n.
Tidy(t, m, n) ==
    {w \in Weights : /\ w[Temp(t)] \in {-1, m} /\ w[Raw(t)] \in {-1, n}
                     /\ \A p \in VariablesOf(t) : w[p] \in {-1, 1}
                     /\ \A p \in Shared : w[p] = 1}

\* The accounts an operation may end in.
Ends(t) == {a \in Accounts : a.depth = 0 /\ a.weight \in Tidy(t, -1, -1)}

\* The accounts that the handler of an operation takes care of.
Caught(t, m, n, D) == {a \in Accounts : a.depth \in D /\ a.weight \in Tidy(t, m, n)}

\* Without a lock and a temporary an operation may end.
LEMMA EndsWhenTidy ==
    ASSUME NEW t \in Threads, NEW w \in Tidy(t, -1, -1), NEW tw \in Places \X Places
    PROVE  Account(0, w, tw) \in Ends(t)
<1>1. w \in Weights /\ 0 \in 0 .. MaxDepth
  BY DEF Tidy, MaxDepth
<1> QED
  BY <1>1, AccountFields DEF Ends

\* At the depths of D, and with the temporaries a handler expects.
LEMMA CaughtWhenTidy ==
    ASSUME NEW t \in Threads, NEW m, NEW n, NEW D, NEW w \in Tidy(t, m, n),
           NEW tw \in Places \X Places, NEW d \in D, d \in 0 .. MaxDepth
    PROVE  Account(d, w, tw) \in Caught(t, m, n, D)
<1>1. w \in Weights
  BY DEF Tidy
<1> QED
  BY <1>1, AccountFields DEF Caught

\* A variable stays tidy with one reference or none.
LEMMA TidyUpdate ==
    ASSUME NEW t \in Threads, NEW m \in -1 .. 3, NEW n \in -1 .. 3, NEW w \in Tidy(t, m, n),
           NEW p \in VariablesOf(t), NEW k \in {-1, 1}
    PROVE  [w EXCEPT ![p] = k] \in Tidy(t, m, n)
<1>1. p \in Places /\ p # Temp(t) /\ p # Raw(t) /\ p \notin Shared
  BY ReachInPlaces
<1>2. [w EXCEPT ![p] = k] \in Weights
  BY <1>1 DEF Tidy, Weights
<1>3. \A x \in Places : [w EXCEPT ![p] = k][x] = IF x = p THEN k ELSE w[x]
  BY <1>1 DEF Tidy, Weights
<1>4. Temp(t) \in Places /\ Raw(t) \in Places /\ VariablesOf(t) \subseteq Places /\ Shared \subseteq Places
  BY ReachInPlaces
<1> QED
  BY <1>1, <1>2, <1>3, <1>4 DEF Tidy

\* A copy: the id first, its reference later.
LEMMA CopyOutline ==
    ASSUME NEW t \in Threads, NEW d \in 0 .. MaxDepth, NEW w \in Weights,
           NEW tw \in Places \X Places, NEW X, NEW p \in Mine(t), NEW q \in Reach(t),
           p # q, w[p] <= 0, w[q] > 0
    PROVE  /\ [w EXCEPT ![p] = 0] \in Weights /\ [w EXCEPT ![p] = 1] \in Weights
           /\ Outline(t, Account(d, w, tw), <<Taking(p, q)>>, Account(d, [w EXCEPT ![p] = 0], <<p, q>>), X)
           /\ Outline(t, Account(d, [w EXCEPT ![p] = 0], <<p, q>>), <<Retaining(p)>>,
                      Account(d, [w EXCEPT ![p] = 1], <<p, q>>), X)
<1> DEFINE v == [w EXCEPT ![p] = 0]
<1>1. p \in Places /\ q \in Places
  BY ReachInPlaces
<1>2. [[w EXCEPT ![p] = 0] EXCEPT ![q] = w[q] - 0] = v
  <2>1. w[q] - 0 = w[q]
    BY <1>1 DEF Weights
  <2>2. [[w EXCEPT ![p] = 0] EXCEPT ![q] = w[q]] = v
    BY <1>1 DEF Weights
  <2> QED
    BY <2>1, <2>2
<1>3. v \in Weights /\ v[p] = 0 /\ v[q] > 0
  BY <1>1 DEF Weights
<1>4. Outline(t, Account(d, w, tw), <<Taking(p, q)>>, Account(d, v, <<p, q>>), X)
  <2>1. 0 \in 0 .. 1 /\ 0 <= w[q]
    BY <1>1 DEF Weights
  <2> QED
    BY <1>2, <2>1, TakeOutline
<1>5. [v EXCEPT ![p] = v[p] + 1] = [w EXCEPT ![p] = 1]
  BY <1>1, <1>3 DEF Weights
<1>6. <<p, q>> \in Places \X Places /\ <<p, q>>[1] = p /\ <<p, q>>[2] = q
  BY <1>1
<1> HIDE DEF v
<1>7. Backed(Account(d, v, <<p, q>>), p) /\ v[p] < 3
  <2>1. Account(d, v, <<p, q>>).weight = v /\ Account(d, v, <<p, q>>).twin = <<p, q>>
    BY <1>3, <1>6, AccountFields
  <2> QED
    BY <1>3, <1>6, <2>1 DEF Backed
<1>8. /\ [v EXCEPT ![p] = v[p] + 1] \in Weights
      /\ Outline(t, Account(d, v, <<p, q>>), <<Retaining(p)>>,
                 Account(d, [v EXCEPT ![p] = v[p] + 1], <<p, q>>), X)
  BY <1>3, <1>6, <1>7, RetainOutline
<1> QED
  BY <1>3, <1>4, <1>5, <1>8 DEF v

\* A move: the reference goes with the id.
LEMMA MoveOutline ==
    ASSUME NEW t \in Threads, NEW d \in 0 .. MaxDepth, NEW w \in Weights,
           NEW tw \in Places \X Places, NEW X, NEW p \in Mine(t), NEW q \in Mine(t),
           p # q, w[p] <= 0, w[q] = 1
    PROVE  /\ [[w EXCEPT ![p] = 1] EXCEPT ![q] = -1] \in Weights
           /\ Outline(t, Account(d, w, tw), <<Taking(p, q), Dropping(q)>>,
                      Account(d, [[w EXCEPT ![p] = 1] EXCEPT ![q] = -1], NoTwin), X)
<1> DEFINE v == [[w EXCEPT ![p] = 1] EXCEPT ![q] = -1]
           u == [[w EXCEPT ![p] = 1] EXCEPT ![q] = w[q] - 1]
<1>1. p \in Places /\ q \in Places /\ q \notin Shared /\ q \in Reach(t)
  BY ReachInPlaces DEF Reach
<1>2. u \in Weights /\ u[q] = 0 /\ [u EXCEPT ![q] = -1] = v
  BY <1>1 DEF Weights
<1>3. Outline(t, Account(d, w, tw), <<Taking(p, q)>>, Account(d, u, <<p, q>>), X)
  <2>1. 1 \in 0 .. 1 /\ 1 <= w[q]
    OBVIOUS
  <2> QED
    BY <1>1, <2>1, TakeOutline
<1>4. <<p, q>> \in Places \X Places /\ u[q] <= 0
  BY <1>1, <1>2
<1> HIDE DEF u
<1>5. /\ [u EXCEPT ![q] = -1] \in Weights
      /\ Outline(t, Account(d, u, <<p, q>>), <<Dropping(q)>>, Account(d, [u EXCEPT ![q] = -1], NoTwin), X)
  BY <1>2, <1>4, DropOutline
<1>6. <<Taking(p, q), Dropping(q)>> = <<Taking(p, q)>> \o <<Dropping(q)>>
  BY Tuples
<1> HIDE DEF v
<1>7. Outline(t, Account(d, u, <<p, q>>), <<Dropping(q)>>, Account(d, v, NoTwin), X) /\ v \in Weights
  BY <1>2, <1>5
<1>8. Outline(t, Account(d, w, tw), <<Taking(p, q), Dropping(q)>>, Account(d, v, NoTwin), X)
  BY <1>3, <1>6, <1>7, OutlineJoin
<1> QED
  BY <1>7, <1>8 DEF v

\* close_(): the reference of a variable, if it holds an id.
LEMMA CloseVariableOutline ==
    ASSUME NEW t \in Threads, NEW w \in Tidy(t, -1, -1), NEW tw \in Places \X Places, NEW X,
           NEW p \in VariablesOf(t), held[p] = None => w[p] = -1
    PROVE  /\ Lower(w, p) \in Weights /\ Lower(w, p)[p] <= 0
           /\ Outline(t, Account(0, w, tw), Close(p), Account(0, Lower(w, p), tw), X)
<1>1. p \in Mine(t) /\ p \in Places /\ w \in Weights /\ w[p] \in {-1, 1}
  BY ReachInPlaces DEF Tidy
<1>2. 0 \in 0 .. MaxDepth /\ 0 < MaxDepth /\ 0 + 1 \in 0 .. MaxDepth
  BY DEF MaxDepth
<1>3. Lower(w, p) \in Weights /\ Lower(w, p)[p] <= 0
  BY <1>1 DEF Lower, Weights
<1>4. CASE IsList(p) \/ held[p] # None
  <2>1. Close(p) = UnderLock(<<Closing(p)>>)
    BY <1>4 DEF Close
  <2>2. Outline(t, Account(0 + 1, w, tw), <<Closing(p)>>, Account(0 + 1, Lower(w, p), tw), X)
    BY <1>1, <1>2, CloseOutline
  <2> QED
    BY <1>1, <1>2, <1>3, <2>1, <2>2, UnderLockOutline
<1>5. CASE ~(IsList(p) \/ held[p] # None)
  <2>1. Close(p) = <<>> /\ w[p] = -1
    BY <1>5 DEF Close
  <2>2. Lower(w, p) = w
    BY <1>1, <2>1 DEF Lower, Weights
  <2> QED
    BY <1>1, <1>2, <1>3, <2>1, <2>2, AccountFields, OutlineNone
<1> QED
  BY <1>4, <1>5

\* hid_t(const hid_t&): the copy has a reference of its own.
LEMMA CopyConstructOutline ==
    ASSUME NEW t \in Threads, NEW w \in Tidy(t, -1, -1), NEW tw \in Places \X Places, NEW X,
           NEW p \in VariablesOf(t), NEW q \in Reach(t), p # q, w[p] = -1, w[q] = 1
    PROVE  \E b \in Ends(t) : Outline(t, Account(0, w, tw), CopyConstruct(p, q), b, X)
<1>1. p \in Mine(t) /\ p \in Places /\ q \in Places /\ w \in Weights
  BY ReachInPlaces DEF Tidy
<1>2. 0 \in 0 .. MaxDepth /\ 0 < MaxDepth /\ 0 + 1 \in 0 .. MaxDepth /\ w[p] <= 0 /\ w[q] > 0
  BY DEF MaxDepth
<1> DEFINE u == [w EXCEPT ![p] = 0]
           v == [w EXCEPT ![p] = 1]
<1>3. /\ u \in Weights /\ v \in Weights
      /\ Outline(t, Account(0, w, tw), <<Taking(p, q)>>, Account(0, u, <<p, q>>), X)
  BY <1>1, <1>2, CopyOutline
<1>4. Outline(t, Account(0 + 1, u, <<p, q>>), <<Retaining(p)>>, Account(0 + 1, v, <<p, q>>), X)
  BY <1>1, <1>2, CopyOutline
<1>5. v \in Tidy(t, -1, -1)
  <2>1. -1 \in -1 .. 3 /\ 1 \in {-1, 1}
    OBVIOUS
  <2> QED
    BY <2>1, TidyUpdate
<1>6. <<p, q>> \in Places \X Places
  BY <1>1
<1> HIDE DEF u, v
<1>7. Outline(t, Account(0, u, <<p, q>>), UnderLock(<<Retaining(p)>>), Account(0, v, <<p, q>>), X)
  BY <1>2, <1>3, <1>4, <1>6, UnderLockOutline
<1>8. Outline(t, Account(0, w, tw), CopyConstruct(p, q), Account(0, v, <<p, q>>), X)
  BY <1>3, <1>7, OutlineJoin DEF CopyConstruct
<1> QED
  BY <1>5, <1>6, <1>8, EndsWhenTidy

\* The target closed and then given one reference or none is tidy again.
LEMMA ClosedUpdate ==
    ASSUME NEW t \in Threads, NEW w \in Tidy(t, -1, -1), NEW p \in VariablesOf(t), NEW k
    PROVE  [Lower(w, p) EXCEPT ![p] = k] = [w EXCEPT ![p] = k]
<1>1. p \in Places /\ w \in Weights
  BY ReachInPlaces DEF Tidy
<1> QED
  BY <1>1 DEF Lower, Weights

\* operator=(const hid_t&): the id held before is given back.
LEMMA CopyAssignOutline ==
    ASSUME NEW t \in Threads, NEW w \in Tidy(t, -1, -1), NEW tw \in Places \X Places, NEW X,
           NEW p \in VariablesOf(t), NEW q \in Reach(t), p # q,
           held[p] = None => w[p] = -1, w[q] = 1
    PROVE  \E b \in Ends(t) : Outline(t, Account(0, w, tw), CopyAssign(p, q), b, X)
<1>1. p \in Mine(t) /\ p \in Places /\ q \in Places /\ w \in Weights /\ w[p] \in {-1, 1}
  BY ReachInPlaces DEF Tidy
<1>2. 0 \in 0 .. MaxDepth /\ 0 < MaxDepth /\ 0 + 1 \in 0 .. MaxDepth
  BY DEF MaxDepth
<1> DEFINE c == Lower(w, p)
           u == [c EXCEPT ![p] = 0]
           v == [c EXCEPT ![p] = 1]
<1>3. /\ c \in Weights /\ c[p] <= 0 /\ c[q] > 0 /\ w[p] # 0
      /\ Outline(t, Account(0, w, tw), Close(p), Account(0, c, tw), X)
  <2>1. c \in Weights /\ c[p] <= 0 /\ Outline(t, Account(0, w, tw), Close(p), Account(0, c, tw), X)
    BY CloseVariableOutline
  <2>2. c[q] = w[q]
    BY <1>1 DEF Lower, Weights
  <2> QED
    BY <1>1, <2>1, <2>2
<1>4. v \in Tidy(t, -1, -1)
  <2>1. v = [w EXCEPT ![p] = 1]
    BY ClosedUpdate
  <2>2. -1 \in -1 .. 3 /\ 1 \in {-1, 1}
    OBVIOUS
  <2> QED
    BY <2>1, <2>2, TidyUpdate
<1>5. <<p, q>> \in Places \X Places
  BY <1>1
<1> HIDE DEF c
<1>6. ASSUME NEW d \in 0 .. MaxDepth
      PROVE  /\ u \in Weights /\ v \in Weights
             /\ Outline(t, Account(d, c, tw), <<Taking(p, q)>>, Account(d, u, <<p, q>>), X)
             /\ Outline(t, Account(d, u, <<p, q>>), <<Retaining(p)>>, Account(d, v, <<p, q>>), X)
  BY <1>1, <1>3, CopyOutline
<1>7. CASE IsList(p)
  <2>1. CopyAssign(p, q) = UnderLock(<<Closing(p)>> \o (<<Taking(p, q)>> \o <<Retaining(p)>>))
    <3>1. /\ <<Closing(p), Taking(p, q), Retaining(p)>>
                = <<Closing(p)>> \o <<Taking(p, q), Retaining(p)>>
          /\ <<Taking(p, q), Retaining(p)>> = <<Taking(p, q)>> \o <<Retaining(p)>>
      BY Tuples
    <3>2. CopyAssign(p, q) = UnderLock(<<Closing(p), Taking(p, q), Retaining(p)>>)
      BY <1>7 DEF CopyAssign
    <3> QED
      BY <3>1, <3>2
  <2>2. Outline(t, Account(0 + 1, w, tw), <<Closing(p)>>, Account(0 + 1, c, tw), X)
    BY <1>1, <1>2, <1>3, CloseOutline DEF c
  <2> HIDE DEF u, v
  <2>3. Outline(t, Account(0 + 1, c, tw), <<Taking(p, q)>> \o <<Retaining(p)>>,
                Account(0 + 1, v, <<p, q>>), X)
    BY <1>2, <1>6, OutlineJoin
  <2>4. Outline(t, Account(0 + 1, w, tw), <<Closing(p)>> \o (<<Taking(p, q)>> \o <<Retaining(p)>>),
                Account(0 + 1, v, <<p, q>>), X)
    BY <2>2, <2>3, OutlineJoin
  <2>5. Outline(t, Account(0, w, tw), CopyAssign(p, q), Account(0, v, <<p, q>>), X)
    BY <1>1, <1>2, <1>5, <1>6, <2>1, <2>4, UnderLockOutline
  <2> QED
    BY <1>4, <1>5, <2>5, EndsWhenTidy
<1>8. CASE ~IsList(p)
  <2>1. CopyAssign(p, q) = Close(p) \o <<Taking(p, q)>> \o UnderLock(<<Retaining(p)>>)
    BY <1>8 DEF CopyAssign
  <2> HIDE DEF u, v
  <2>2. Outline(t, Account(0, w, tw), Close(p) \o <<Taking(p, q)>>, Account(0, u, <<p, q>>), X)
    BY <1>2, <1>3, <1>6, OutlineJoin
  <2>3. Outline(t, Account(0, u, <<p, q>>), UnderLock(<<Retaining(p)>>), Account(0, v, <<p, q>>), X)
    BY <1>2, <1>5, <1>6, UnderLockOutline
  <2>4. Outline(t, Account(0, w, tw), CopyAssign(p, q), Account(0, v, <<p, q>>), X)
    BY <2>1, <2>2, <2>3, OutlineJoin
  <2> QED
    BY <1>4, <1>5, <2>4, EndsWhenTidy
<1> QED
  BY <1>7, <1>8

\* hid_t(hid_t&&): the reference goes with the id.
LEMMA MoveConstructOutline ==
    ASSUME NEW t \in Threads, NEW w \in Tidy(t, -1, -1), NEW tw \in Places \X Places, NEW X,
           NEW p \in VariablesOf(t), NEW q \in VariablesOf(t), p # q, w[p] = -1, w[q] = 1
    PROVE  \E b \in Ends(t) : Outline(t, Account(0, w, tw), MoveConstruct(p, q), b, X)
<1> DEFINE v == [[w EXCEPT ![p] = 1] EXCEPT ![q] = -1]
<1>1. p \in Mine(t) /\ q \in Mine(t) /\ w \in Weights /\ w[p] <= 0 /\ NoTwin \in Places \X Places
  BY ReachInPlaces DEF Tidy
<1>2. Outline(t, Account(0, w, tw), MoveConstruct(p, q), Account(0, v, NoTwin), X)
  <2>1. 0 \in 0 .. MaxDepth
    BY DEF MaxDepth
  <2> QED
    BY <1>1, <2>1, MoveOutline DEF MoveConstruct
<1>3. v \in Tidy(t, -1, -1)
  <2>1. -1 \in -1 .. 3 /\ 1 \in {-1, 1} /\ -1 \in {-1, 1}
    OBVIOUS
  <2>2. [w EXCEPT ![p] = 1] \in Tidy(t, -1, -1)
    BY <2>1, TidyUpdate
  <2> QED
    BY <2>1, <2>2, TidyUpdate
<1> QED
  BY <1>1, <1>2, <1>3, EndsWhenTidy

\* operator=(hid_t&&): the id held before is given back, and the reference
\* goes with the new one.
LEMMA MoveAssignOutline ==
    ASSUME NEW t \in Threads, NEW w \in Tidy(t, -1, -1), NEW tw \in Places \X Places, NEW X,
           NEW p \in VariablesOf(t), NEW q \in VariablesOf(t), p # q,
           held[p] = None => w[p] = -1, w[q] = 1
    PROVE  \E b \in Ends(t) : Outline(t, Account(0, w, tw), MoveAssign(p, q), b, X)
<1>1. /\ p \in Mine(t) /\ q \in Mine(t) /\ p \in Places /\ q \in Places /\ w \in Weights
      /\ w[p] \in {-1, 1} /\ NoTwin \in Places \X Places
  BY ReachInPlaces DEF Tidy
<1>2. 0 \in 0 .. MaxDepth /\ 0 < MaxDepth /\ 0 + 1 \in 0 .. MaxDepth
  BY DEF MaxDepth
<1> DEFINE c == Lower(w, p)
           v == [[c EXCEPT ![p] = 1] EXCEPT ![q] = -1]
<1>3. /\ c \in Weights /\ c[p] <= 0 /\ c[q] = 1 /\ w[p] # 0
      /\ Outline(t, Account(0, w, tw), Close(p), Account(0, c, tw), X)
  <2>1. c \in Weights /\ c[p] <= 0 /\ Outline(t, Account(0, w, tw), Close(p), Account(0, c, tw), X)
    BY CloseVariableOutline
  <2>2. c[q] = w[q]
    BY <1>1 DEF Lower, Weights
  <2> QED
    BY <1>1, <2>1, <2>2
<1>4. v \in Tidy(t, -1, -1)
  <2>1. [c EXCEPT ![p] = 1] = [w EXCEPT ![p] = 1]
    BY ClosedUpdate
  <2>2. -1 \in -1 .. 3 /\ 1 \in {-1, 1} /\ -1 \in {-1, 1}
    OBVIOUS
  <2>3. [w EXCEPT ![p] = 1] \in Tidy(t, -1, -1)
    BY <2>2, TidyUpdate
  <2> QED
    BY <2>1, <2>2, <2>3, TidyUpdate
<1> HIDE DEF c
<1>5. ASSUME NEW d \in 0 .. MaxDepth
      PROVE  /\ v \in Weights
             /\ Outline(t, Account(d, c, tw), <<Taking(p, q), Dropping(q)>>, Account(d, v, NoTwin), X)
  BY <1>1, <1>3, MoveOutline
<1>6. CASE IsList(p)
  <2>1. MoveAssign(p, q) = UnderLock(<<Closing(p)>> \o <<Taking(p, q), Dropping(q)>>)
    <3>1. <<Closing(p), Taking(p, q), Dropping(q)>> = <<Closing(p)>> \o <<Taking(p, q), Dropping(q)>>
      BY Tuples
    <3>2. MoveAssign(p, q) = UnderLock(<<Closing(p), Taking(p, q), Dropping(q)>>)
      BY <1>6 DEF MoveAssign
    <3> QED
      BY <3>1, <3>2
  <2>2. Outline(t, Account(0 + 1, w, tw), <<Closing(p)>>, Account(0 + 1, c, tw), X)
    BY <1>1, <1>2, <1>3, CloseOutline DEF c
  <2> HIDE DEF v
  <2>3. Outline(t, Account(0 + 1, w, tw), <<Closing(p)>> \o <<Taking(p, q), Dropping(q)>>,
                Account(0 + 1, v, NoTwin), X)
    BY <1>2, <1>5, <2>2, OutlineJoin
  <2>4. Outline(t, Account(0, w, tw), MoveAssign(p, q), Account(0, v, NoTwin), X)
    BY <1>1, <1>2, <1>5, <2>1, <2>3, UnderLockOutline
  <2> QED
    BY <1>1, <1>4, <2>4, EndsWhenTidy
<1>7. CASE ~IsList(p)
  <2>1. MoveAssign(p, q) = Close(p) \o <<Taking(p, q), Dropping(q)>>
    BY <1>7 DEF MoveAssign
  <2> HIDE DEF v
  <2>2. Outline(t, Account(0, w, tw), MoveAssign(p, q), Account(0, v, NoTwin), X)
    BY <1>2, <1>3, <1>5, <2>1, OutlineJoin
  <2> QED
    BY <1>1, <1>4, <2>2, EndsWhenTidy
<1> QED
  BY <1>6, <1>7

\* ~hid_t(): the reference is given back.
LEMMA DestroyOutline ==
    ASSUME NEW t \in Threads, NEW w \in Tidy(t, -1, -1), NEW tw \in Places \X Places, NEW X,
           NEW p \in VariablesOf(t), held[p] = None => w[p] = -1
    PROVE  \E b \in Ends(t) : Outline(t, Account(0, w, tw), Destroy(p), b, X)
<1>1. p \in Mine(t) /\ w \in Weights /\ NoTwin \in Places \X Places /\ 0 \in 0 .. MaxDepth
  BY ReachInPlaces DEF Tidy, MaxDepth
<1> DEFINE c == Lower(w, p)
           v == [c EXCEPT ![p] = -1]
<1>2. c \in Weights /\ c[p] <= 0 /\ Outline(t, Account(0, w, tw), Close(p), Account(0, c, tw), X)
  BY CloseVariableOutline
<1>3. v \in Tidy(t, -1, -1)
  <2>1. v = [w EXCEPT ![p] = -1]
    BY ClosedUpdate
  <2>2. -1 \in -1 .. 3 /\ -1 \in {-1, 1}
    OBVIOUS
  <2> QED
    BY <2>1, <2>2, TidyUpdate
<1> HIDE DEF c
<1>4. Outline(t, Account(0, c, tw), <<Dropping(p)>>, Account(0, v, NoTwin), X)
  BY <1>1, <1>2, DropOutline
<1> HIDE DEF v
<1>5. Outline(t, Account(0, w, tw), Destroy(p), Account(0, v, NoTwin), X)
  BY <1>2, <1>4, OutlineJoin DEF Destroy
<1> QED
  BY <1>1, <1>3, <1>5, EndsWhenTidy

(***************************************************************************)
(* Outlines of the property expressions and of the operations on datasets  *)
(***************************************************************************)
\* Tidy weights, with m for the temporary of a property and n for a raw id.
Within(t, w, m, n) == [[w EXCEPT ![Temp(t)] = m] EXCEPT ![Raw(t)] = n]

\* The weights of an operation with a temporary and a raw hid_t in hand.
LEMMA WithinFacts ==
    ASSUME NEW t \in Threads, NEW w \in Tidy(t, -1, -1), NEW m \in -1 .. 3, NEW n \in -1 .. 3
    PROVE  /\ Within(t, w, m, n) \in Tidy(t, m, n) /\ Within(t, w, m, n) \in Weights
           /\ Within(t, w, m, n)[Temp(t)] = m /\ Within(t, w, m, n)[Raw(t)] = n
           /\ \A k \in -1 .. 3 : [Within(t, w, m, n) EXCEPT ![Temp(t)] = k] = Within(t, w, k, n)
           /\ \A k \in -1 .. 3 : [Within(t, w, m, n) EXCEPT ![Raw(t)] = k] = Within(t, w, m, k)
           /\ Within(t, w, -1, -1) = w
<1>1. /\ Temp(t) \in Places /\ Raw(t) \in Places /\ Temp(t) # Raw(t)
      /\ Temp(t) \notin Shared /\ Raw(t) \notin Shared /\ w \in Weights
      /\ Temp(t) \notin VariablesOf(t) /\ Raw(t) \notin VariablesOf(t)
      /\ VariablesOf(t) \subseteq Places /\ Shared \subseteq Places
  BY ReachInPlaces DEF Tidy
<1>2. /\ Within(t, w, m, n) \in Weights
      /\ \A x \in Places : Within(t, w, m, n)[x] =
             IF x = Raw(t) THEN n ELSE IF x = Temp(t) THEN m ELSE w[x]
  BY <1>1 DEF Within, Weights
<1>3. Within(t, w, m, n) \in Tidy(t, m, n)
  BY <1>1, <1>2 DEF Tidy
<1>4. \A k \in -1 .. 3 : [Within(t, w, m, n) EXCEPT ![Temp(t)] = k] = Within(t, w, k, n)
  BY <1>1 DEF Within, Weights
<1>5. \A k \in -1 .. 3 : [Within(t, w, m, n) EXCEPT ![Raw(t)] = k] = Within(t, w, m, k)
  BY <1>1 DEF Within, Weights
<1>6. Within(t, w, -1, -1) = w
  <2>1. w[Temp(t)] = -1 /\ w[Raw(t)] = -1
    BY DEF Tidy
  <2> QED
    BY <1>1, <2>1 DEF Within, Weights
<1> QED
  BY <1>1, <1>2, <1>3, <1>4, <1>5, <1>6

\* The temporaries are none of the variables.
LEMMA WithinVariable ==
    ASSUME NEW t \in Threads, NEW w \in Tidy(t, -1, -1), NEW p \in VariablesOf(t)
    PROVE  \A m, n \in -1 .. 3 : Within(t, w, m, n)[p] = w[p]
<1>1. /\ Temp(t) \in Places /\ Raw(t) \in Places /\ p # Temp(t) /\ p # Raw(t) /\ p \in Places
      /\ w \in Weights
  BY ReachInPlaces DEF Tidy
<1> QED
  BY <1>1 DEF Within, Weights

\* A variable is given its reference, whatever the temporaries stand for.
Full(w, p) == [w EXCEPT ![p] = 1]

\* A variable is filled whatever the temporaries hold.
LEMMA WithinUpdate ==
    ASSUME NEW t \in Threads, NEW w \in Tidy(t, -1, -1), NEW p \in VariablesOf(t),
           NEW m \in -1 .. 3, NEW n \in -1 .. 3
    PROVE  /\ Full(Within(t, w, m, n), p) = Within(t, Full(w, p), m, n)
           /\ Full(w, p) \in Tidy(t, -1, -1)
<1>1. /\ Temp(t) \in Places /\ Raw(t) \in Places /\ p # Temp(t) /\ p # Raw(t) /\ p \in Places
      /\ w \in Weights
  BY ReachInPlaces DEF Tidy
<1>2. Full(w, p) \in Tidy(t, -1, -1)
  <2>1. -1 \in -1 .. 3 /\ 1 \in {-1, 1}
    OBVIOUS
  <2> QED
    BY <2>1, TidyUpdate DEF Full
<1>3. Full(Within(t, w, m, n), p) = Within(t, Full(w, p), m, n)
  BY <1>1 DEF Within, Weights, Full
<1> QED
  BY <1>2, <1>3

\* What the handlers make of an account they catch.
LEMMA TidyTemporaries ==
    ASSUME NEW t \in Threads, NEW m \in -1 .. 3, NEW n \in -1 .. 3, NEW w \in Tidy(t, m, n)
    PROVE  /\ w \in Weights /\ w[Temp(t)] \in {-1, m} /\ w[Raw(t)] \in {-1, n}
           /\ [w EXCEPT ![Temp(t)] = -1] \in Tidy(t, -1, n)
           /\ [w EXCEPT ![Raw(t)] = -1] \in Tidy(t, m, -1)
           /\ n > 0 => Lower(w, Raw(t)) \in Tidy(t, m, n - 1)
<1>1. /\ Temp(t) \in Places /\ Raw(t) \in Places /\ Temp(t) # Raw(t)
      /\ Temp(t) \notin Shared /\ Raw(t) \notin Shared /\ w \in Weights
      /\ Temp(t) \notin VariablesOf(t) /\ Raw(t) \notin VariablesOf(t)
      /\ VariablesOf(t) \subseteq Places /\ Shared \subseteq Places
      /\ w[Temp(t)] \in {-1, m} /\ w[Raw(t)] \in {-1, n}
  BY ReachInPlaces DEF Tidy
<1>2. [w EXCEPT ![Temp(t)] = -1] \in Tidy(t, -1, n)
  <2>1. /\ [w EXCEPT ![Temp(t)] = -1] \in Weights
        /\ \A x \in Places : [w EXCEPT ![Temp(t)] = -1][x] = IF x = Temp(t) THEN -1 ELSE w[x]
    BY <1>1 DEF Weights
  <2> QED
    BY <1>1, <2>1 DEF Tidy
<1>3. [w EXCEPT ![Raw(t)] = -1] \in Tidy(t, m, -1)
  <2>1. /\ [w EXCEPT ![Raw(t)] = -1] \in Weights
        /\ \A x \in Places : [w EXCEPT ![Raw(t)] = -1][x] = IF x = Raw(t) THEN -1 ELSE w[x]
    BY <1>1 DEF Weights
  <2> QED
    BY <1>1, <2>1 DEF Tidy
<1>4. ASSUME n > 0
      PROVE  Lower(w, Raw(t)) \in Tidy(t, m, n - 1)
  <2>1. /\ Lower(w, Raw(t)) \in Weights
        /\ \A x \in Places : Lower(w, Raw(t))[x] =
               IF x = Raw(t) THEN (IF w[x] = -1 THEN -1 ELSE n - 1) ELSE w[x]
    BY <1>1, <1>4 DEF Weights, Lower
  <2> QED
    BY <1>1, <2>1 DEF Tidy
<1> QED
  BY <1>1, <1>2, <1>3, <1>4

\* Less than the handler expects is caught too.
LEMMA TidyLoose ==
    ASSUME NEW t, NEW m, NEW n
    PROVE  /\ Tidy(t, -1, n) \subseteq Tidy(t, m, n) /\ Tidy(t, m, -1) \subseteq Tidy(t, m, n)
           /\ Tidy(t, -1, -1) \subseteq Tidy(t, m, n)
BY DEF Tidy

\* The property expression creates a list.
LEMMA PropertyCtorOutline ==
    ASSUME NEW t \in Threads, NEW w \in Weights, NEW tw \in Places \X Places, NEW X,
           w[Temp(t)] = -1, Account(1, w, tw) \in X
    PROVE  /\ [w EXCEPT ![Temp(t)] = 1] \in Weights
           /\ Outline(t, Account(0, w, tw), PropertyCtor(t),
                      Account(0, [w EXCEPT ![Temp(t)] = 1], NoTwin), X)
<1>1. 0 \in 0 .. MaxDepth /\ 0 < MaxDepth /\ 0 + 1 \in 0 .. MaxDepth /\ 0 + 1 = 1
  BY DEF MaxDepth
<1>2. Temp(t) \in Mine(t) /\ Temp(t) \in Reach(t) /\ NoTwin \in Places \X Places
  BY ReachInPlaces DEF Reach
<1>3. /\ [w EXCEPT ![Temp(t)] = 1] \in Weights
      /\ Outline(t, Account(0 + 1, w, tw), <<Creating(Temp(t))>>,
                 Account(0 + 1, [w EXCEPT ![Temp(t)] = 1], NoTwin), X)
  BY <1>1, <1>2, OpenOutline DEF Creating
<1> QED
  BY <1>1, <1>2, <1>3, UnderLockOutline DEF PropertyCtor

\* ~prop_base closes the list of the property expression, created or not.
LEMMA PropertyDtorOutline ==
    ASSUME NEW t \in Threads, NEW w \in Weights, NEW tw \in Places \X Places, NEW X,
           w[Temp(t)] \in {-1, 1}
    PROVE  /\ [w EXCEPT ![Temp(t)] = -1] \in Weights
           /\ Outline(t, Account(0, w, tw), PropertyDtor(t),
                      Account(0, [w EXCEPT ![Temp(t)] = -1], NoTwin), X)
<1> DEFINE c == Lower(w, Temp(t))
<1>1. 0 \in 0 .. MaxDepth /\ 0 < MaxDepth /\ 0 + 1 \in 0 .. MaxDepth
  BY DEF MaxDepth
<1>2. Temp(t) \in Mine(t) /\ Temp(t) \in Places
  BY ReachInPlaces
<1>3. c[Temp(t)] <= 0 /\ [c EXCEPT ![Temp(t)] = -1] = [w EXCEPT ![Temp(t)] = -1]
  <2>1. c[Temp(t)] <= 0
    BY <1>2 DEF Lower, Weights
  <2>2. [c EXCEPT ![Temp(t)] = -1] = [w EXCEPT ![Temp(t)] = -1]
    BY <1>2 DEF Lower, Weights
  <2> QED
    BY <2>1, <2>2
<1>4. /\ c \in Weights
      /\ Outline(t, Account(0 + 1, w, tw), <<Closing(Temp(t))>>, Account(0 + 1, c, tw), X)
  BY <1>1, <1>2, CloseOutline
<1> HIDE DEF c
<1>5. Outline(t, Account(0, w, tw), UnderLock(<<Closing(Temp(t))>>), Account(0, c, tw), X)
  BY <1>1, <1>4, UnderLockOutline
<1>6. /\ [c EXCEPT ![Temp(t)] = -1] \in Weights
      /\ Outline(t, Account(0, c, tw), <<Dropping(Temp(t))>>,
                 Account(0, [c EXCEPT ![Temp(t)] = -1], NoTwin), X)
  BY <1>1, <1>2, <1>3, <1>4, DropOutline
<1>7. Outline(t, Account(0, w, tw), PropertyDtor(t), Account(0, [c EXCEPT ![Temp(t)] = -1], NoTwin), X)
  BY <1>5, <1>6, OutlineJoin DEF PropertyDtor
<1> QED
  BY <1>3, <1>6, <1>7

\* copy_impl hangs a pipeline on a list and leaves the references alone.
LEMMA CopyImplOutline ==
    ASSUME NEW t \in Threads, NEW w \in Weights, NEW tw \in Places \X Places, NEW X,
           NEW p \in Mine(t), Account(2, w, tw) \in X
    PROVE  Outline(t, Account(1, w, tw), CopyImpl(p), Account(1, w, tw), X)
<1>1. 1 \in 0 .. MaxDepth /\ 1 < MaxDepth /\ 1 + 1 \in 0 .. MaxDepth /\ 1 + 1 = 2
  BY DEF MaxDepth
<1>2. p \in Reach(t)
  BY DEF Reach
<1>3. Outline(t, Account(1 + 1, w, tw), <<Setting(p)>>, Account(1 + 1, w, tw), X)
  BY <1>1, <1>2, UseOutline
<1> QED
  BY <1>1, <1>3, UnderLockOutline DEF CopyImpl

\* h5::dapl_t p = h5::flag::high_throughput{};
LEMMA ConvertOutline ==
    ASSUME NEW t \in Threads, NEW w \in Tidy(t, -1, -1), NEW tw \in Places \X Places,
           NEW p \in VariablesOf(t), w[p] = -1
    PROVE  \E b \in Ends(t) :
               Outline(t, Account(0, w, tw), Convert(t, p), b, Caught(t, 1, -1, {1, 2}))
<1> DEFINE X == Caught(t, 1, -1, {1, 2})
           T == Temp(t)
           w1 == Within(t, w, 1, -1)
           w2 == Within(t, w, 2, -1)
           v == Full(w, p)
           v1 == Within(t, v, 1, -1)
<1>1. /\ -1 \in -1 .. 3 /\ 1 \in -1 .. 3 /\ 2 \in -1 .. 3 /\ 1 \in {-1, 1} /\ 1 \in {1, 2} /\ 2 \in {1, 2}
      /\ 0 \in 0 .. MaxDepth /\ 1 \in 0 .. MaxDepth /\ 2 \in 0 .. MaxDepth
      /\ 0 < MaxDepth /\ 0 + 1 = 1
  BY DEF MaxDepth
<1>2. /\ T \in Mine(t) /\ T \in Reach(t) /\ T \notin Shared /\ p \in Mine(t) /\ p # T
      /\ p \in Places /\ T \in Places /\ <<p, T>> \in Places \X Places /\ NoTwin \in Places \X Places
  BY ReachInPlaces DEF Reach
<1>3. w \in Weights /\ w[T] = -1 /\ Account(1, w, tw) \in X
  <2>1. w \in Tidy(t, 1, -1)
    BY TidyLoose
  <2>2. Account(1, w, tw) \in X
    BY <1>1, <2>1, CaughtWhenTidy
  <2> QED
    BY <2>2 DEF Tidy
<1>4. /\ w1 \in Weights /\ w1 \in Tidy(t, 1, -1) /\ w1[T] = 1 /\ w1[p] = -1
      /\ [w EXCEPT ![T] = 1] = w1 /\ [w1 EXCEPT ![T] = 2] = w2
      /\ w2 \in Weights /\ w2[T] = 2 /\ w2[p] = -1
  <2>1. w = Within(t, w, -1, -1) /\ [Within(t, w, -1, -1) EXCEPT ![T] = 1] = w1
    BY <1>1, WithinFacts
  <2>2. w1 \in Weights /\ w1 \in Tidy(t, 1, -1) /\ w1[T] = 1 /\ [w1 EXCEPT ![T] = 2] = w2
    BY <1>1, WithinFacts
  <2>3. w2 \in Weights /\ w2[T] = 2
    BY <1>1, WithinFacts
  <2>4. w1[p] = w[p] /\ w2[p] = w[p]
    BY <1>1, WithinVariable
  <2> QED
    BY <2>1, <2>2, <2>3, <2>4
<1>5. /\ v \in Tidy(t, -1, -1) /\ [[w2 EXCEPT ![p] = 1] EXCEPT ![T] = w2[T] - 1] = v1
      /\ v1 \in Weights /\ v1[T] = 1 /\ [v1 EXCEPT ![T] = -1] = v
  <2>1. v \in Tidy(t, -1, -1) /\ [w2 EXCEPT ![p] = 1] = Within(t, v, 2, -1)
    <3>1. v \in Tidy(t, -1, -1) /\ Full(w2, p) = Within(t, v, 2, -1)
      BY <1>1, WithinUpdate
    <3> QED
      BY <3>1 DEF Full
  <2> HIDE DEF v
  <2>2. [Within(t, v, 2, -1) EXCEPT ![T] = 1] = v1
    BY <1>1, <2>1, WithinFacts
  <2>3. w2[T] - 1 = 1
    BY <1>4
  <2>4. v1 \in Weights /\ v1[T] = 1 /\ [v1 EXCEPT ![T] = -1] = Within(t, v, -1, -1)
    BY <1>1, <2>1, WithinFacts
  <2>5. Within(t, v, -1, -1) = v
    BY <1>1, <2>1, WithinFacts
  <2> QED
    BY <2>1, <2>2, <2>3, <2>4, <2>5
<1> HIDE DEF X, w1, w2, v, v1, T
<1>6. Outline(t, Account(0, w, tw), PropertyCtor(t), Account(0, w1, NoTwin), X)
  BY <1>3, <1>4, PropertyCtorOutline DEF T
<1>7. Outline(t, Account(1, w1, NoTwin), CopyImpl(T), Account(1, w1, NoTwin), X)
  <2>1. Account(2, w1, NoTwin) \in X
    BY <1>1, <1>2, <1>4, CaughtWhenTidy DEF X
  <2> QED
    BY <1>2, <1>4, <2>1, CopyImplOutline
<1>8. Outline(t, Account(1, w1, NoTwin), <<Retaining(T)>>, Account(1, w2, NoTwin), X)
  <2>1. Backed(Account(1, w1, NoTwin), T)
    <3>1. Account(1, w1, NoTwin).weight = w1
      BY <1>1, <1>2, <1>4, AccountFields
    <3> QED
      BY <1>4, <3>1 DEF Backed
  <2>2. w1[T] < 3 /\ w1[T] + 1 = 2
    BY <1>4
  <2> QED
    BY <1>1, <1>2, <1>4, <2>1, <2>2, RetainOutline
<1>9. Outline(t, Account(1, w2, NoTwin), <<Taking(p, T)>>, Account(1, v1, <<p, T>>), X)
  <2>1. 1 \in 0 .. 1 /\ w2[p] <= 0 /\ 1 <= w2[T]
    BY <1>4
  <2> QED
    BY <1>1, <1>2, <1>4, <1>5, <2>1, TakeOutline
<1>10. Outline(t, Account(1, w1, NoTwin), CopyImpl(T) \o <<Retaining(T), Taking(p, T)>>,
               Account(1, v1, <<p, T>>), X)
  <2>1. <<Retaining(T), Taking(p, T)>> = <<Retaining(T)>> \o <<Taking(p, T)>>
    BY Tuples
  <2>2. Outline(t, Account(1, w1, NoTwin), <<Retaining(T)>> \o <<Taking(p, T)>>,
                Account(1, v1, <<p, T>>), X)
    BY <1>8, <1>9, OutlineJoin
  <2> QED
    BY <1>7, <2>1, <2>2, OutlineJoin
<1>11. Outline(t, Account(0, w1, NoTwin), UnderLock(CopyImpl(T) \o <<Retaining(T), Taking(p, T)>>),
               Account(0, v1, <<p, T>>), X)
  BY <1>1, <1>2, <1>4, <1>5, <1>10, UnderLockOutline
<1>12. Outline(t, Account(0, v1, <<p, T>>), PropertyDtor(t), Account(0, v, NoTwin), X)
  BY <1>2, <1>5, PropertyDtorOutline DEF T
<1>13. Outline(t, Account(0, w, tw), Convert(t, p), Account(0, v, NoTwin), X)
  <2>1. Outline(t, Account(0, w, tw),
                PropertyCtor(t) \o UnderLock(CopyImpl(T) \o <<Retaining(T), Taking(p, T)>>),
                Account(0, v1, <<p, T>>), X)
    BY <1>6, <1>11, OutlineJoin
  <2>2. Outline(t, Account(0, w, tw),
                PropertyCtor(t) \o UnderLock(CopyImpl(T) \o <<Retaining(T), Taking(p, T)>>)
                    \o PropertyDtor(t),
                Account(0, v, NoTwin), X)
    BY <1>12, <2>1, OutlineJoin
  <2> QED
    BY <2>2 DEF Convert, T
<1> QED
  BY <1>2, <1>5, <1>13, EndsWhenTidy DEF X

\* h5::dapl_t p = h5::flag::high_throughput{} | q;
LEMMA ChainOutline ==
    ASSUME NEW t \in Threads, NEW w \in Tidy(t, -1, -1), NEW tw \in Places \X Places,
           NEW p \in VariablesOf(t), NEW q \in Reach(t), w[p] = -1
    PROVE  \E b \in Ends(t) :
               Outline(t, Account(0, w, tw), Chain(t, p, q), b, Caught(t, 1, 1, {1, 2}))
<1> DEFINE X == Caught(t, 1, 1, {1, 2})
           R == Raw(t)
           w1 == Within(t, w, 1, -1)
           w2 == Within(t, w, 1, 1)
           v == Full(w, p)
           v1 == Within(t, v, 1, -1)
<1>1. /\ -1 \in -1 .. 3 /\ 1 \in -1 .. 3 /\ 1 \in {-1, 1} /\ 1 \in {1, 2} /\ 2 \in {1, 2}
      /\ 0 \in 0 .. MaxDepth /\ 1 \in 0 .. MaxDepth /\ 2 \in 0 .. MaxDepth
      /\ 0 < MaxDepth /\ 0 + 1 = 1
  BY DEF MaxDepth
<1>2. /\ R \in Mine(t) /\ R \notin Shared /\ p \in Mine(t) /\ p # R
      /\ p \in Places /\ R \in Places /\ NoTwin \in Places \X Places
  BY ReachInPlaces DEF Reach
<1>3. w \in Weights /\ w[Temp(t)] = -1 /\ Account(1, w, tw) \in X
  <2>1. w \in Tidy(t, 1, 1)
    BY TidyLoose
  <2>2. Account(1, w, tw) \in X
    BY <1>1, <2>1, CaughtWhenTidy
  <2> QED
    BY <2>2 DEF Tidy
<1>4. /\ w1 \in Weights /\ w1 \in Tidy(t, 1, -1) /\ w1 \in Tidy(t, 1, 1) /\ w1[R] = -1
      /\ [w EXCEPT ![Temp(t)] = 1] = w1 /\ [w1 EXCEPT ![R] = 1] = w2
      /\ w2 \in Weights /\ w2 \in Tidy(t, 1, 1) /\ w2[R] = 1 /\ w2[p] = -1
  <2>1. w = Within(t, w, -1, -1) /\ [Within(t, w, -1, -1) EXCEPT ![Temp(t)] = 1] = w1
    BY <1>1, WithinFacts
  <2>2. w1 \in Weights /\ w1 \in Tidy(t, 1, -1) /\ w1[R] = -1 /\ [w1 EXCEPT ![R] = 1] = w2
    BY <1>1, WithinFacts
  <2>3. w2 \in Weights /\ w2 \in Tidy(t, 1, 1) /\ w2[R] = 1
    BY <1>1, WithinFacts
  <2>4. w2[p] = w[p]
    BY <1>1, WithinVariable
  <2>5. w1 \in Tidy(t, 1, 1)
    BY <2>2, TidyLoose
  <2> QED
    BY <2>1, <2>2, <2>3, <2>4, <2>5
<1>5. /\ v \in Tidy(t, -1, -1) /\ [[w2 EXCEPT ![p] = 1] EXCEPT ![R] = -1] = v1
      /\ v1 \in Weights /\ v1[Temp(t)] = 1 /\ [v1 EXCEPT ![Temp(t)] = -1] = v
  <2>1. v \in Tidy(t, -1, -1) /\ [w2 EXCEPT ![p] = 1] = Within(t, v, 1, 1)
    <3>1. v \in Tidy(t, -1, -1) /\ Full(w2, p) = Within(t, v, 1, 1)
      BY <1>1, WithinUpdate
    <3> QED
      BY <3>1 DEF Full
  <2> HIDE DEF v
  <2>2. [Within(t, v, 1, 1) EXCEPT ![R] = -1] = v1
    BY <1>1, <2>1, WithinFacts
  <2>3. v1 \in Weights /\ v1[Temp(t)] = 1 /\ [v1 EXCEPT ![Temp(t)] = -1] = Within(t, v, -1, -1)
    BY <1>1, <2>1, WithinFacts
  <2>4. Within(t, v, -1, -1) = v
    BY <1>1, <2>1, WithinFacts
  <2> QED
    BY <2>1, <2>2, <2>3, <2>4
<1> HIDE DEF X, w1, w2, v, v1, R
<1>6. Outline(t, Account(0, w, tw), PropertyCtor(t), Account(0, w1, NoTwin), X)
  BY <1>3, <1>4, PropertyCtorOutline
<1>7. Outline(t, Account(1, w1, NoTwin), <<Copying(R, q)>>, Account(1, w2, NoTwin), X)
  <2>1. Account(1, w1, NoTwin) \in X
    BY <1>1, <1>2, <1>4, CaughtWhenTidy DEF X
  <2> QED
    BY <1>1, <1>2, <1>4, <2>1, OpenOutline DEF Copying
<1>8. Outline(t, Account(1, w2, NoTwin), CopyImpl(R), Account(1, w2, NoTwin), X)
  <2>1. Account(2, w2, NoTwin) \in X
    BY <1>1, <1>2, <1>4, CaughtWhenTidy DEF X
  <2> QED
    BY <1>2, <1>4, <2>1, CopyImplOutline
<1>9. Outline(t, Account(1, w2, NoTwin), <<Taking(p, R), Dropping(R)>>, Account(1, v1, NoTwin), X)
  <2>1. w2[p] <= 0
    BY <1>4
  <2> QED
    BY <1>1, <1>2, <1>4, <1>5, <2>1, MoveOutline
<1> DEFINE body == <<Copying(R, q)>> \o CopyImpl(R) \o <<Taking(p, R), Dropping(R)>>
<1>10. Outline(t, Account(1, w1, NoTwin), body, Account(1, v1, NoTwin), X)
  <2>1. Outline(t, Account(1, w1, NoTwin), <<Copying(R, q)>> \o CopyImpl(R), Account(1, w2, NoTwin), X)
    BY <1>7, <1>8, OutlineJoin
  <2> QED
    BY <1>9, <2>1, OutlineJoin
<1> HIDE DEF body
<1>11. Outline(t, Account(0, w1, NoTwin), UnderLock(body), Account(0, v1, NoTwin), X)
  BY <1>1, <1>2, <1>4, <1>5, <1>10, UnderLockOutline
<1>12. Outline(t, Account(0, v1, NoTwin), PropertyDtor(t), Account(0, v, NoTwin), X)
  BY <1>2, <1>5, PropertyDtorOutline
<1>13. Outline(t, Account(0, w, tw), Chain(t, p, q), Account(0, v, NoTwin), X)
  <2>1. Outline(t, Account(0, w, tw), PropertyCtor(t) \o UnderLock(body), Account(0, v1, NoTwin), X)
    BY <1>6, <1>11, OutlineJoin
  <2>2. Outline(t, Account(0, w, tw), PropertyCtor(t) \o UnderLock(body) \o PropertyDtor(t),
                Account(0, v, NoTwin), X)
    BY <1>12, <2>1, OutlineJoin
  <2> QED
    BY <2>2 DEF Chain, R, body
<1> QED
  BY <1>2, <1>5, <1>13, EndsWhenTidy DEF X

\* h5::fill_value<T>{v}
LEMMA FillValueOutline ==
    ASSUME NEW t \in Threads, NEW w \in Tidy(t, -1, -1), NEW tw \in Places \X Places
    PROVE  \E b \in Ends(t) :
               Outline(t, Account(0, w, tw), FillValue(t), b, Caught(t, 1, 3, {1}))
<1> DEFINE X == Caught(t, 1, 3, {1})
           R == Raw(t)
           r(n) == Within(t, w, -1, n)
           u(n) == Within(t, w, 1, n)
<1>1. /\ -1 \in -1 .. 3 /\ 0 \in -1 .. 3 /\ 1 \in -1 .. 3 /\ 2 \in -1 .. 3 /\ 3 \in -1 .. 3
      /\ 0 \in 0 .. MaxDepth /\ 1 \in 0 .. MaxDepth /\ 1 \in {1} /\ 1 \in {-1, 1}
      /\ 0 < MaxDepth /\ 0 + 1 = 1 /\ 1 \in 1 .. 2
  BY DEF MaxDepth
<1>2. R \in Mine(t) /\ R \in Reach(t) /\ R \in Places /\ NoTwin \in Places \X Places
  BY ReachInPlaces DEF Reach
<1>3. w = r(-1) /\ w \in Weights
  BY <1>1, WithinFacts
<1>4. ASSUME NEW n \in -1 .. 3
      PROVE  /\ r(n) \in Weights /\ u(n) \in Weights /\ r(n)[R] = n /\ u(n)[R] = n
             /\ r(n)[Temp(t)] = -1 /\ u(n)[Temp(t)] = 1
             /\ [r(n) EXCEPT ![Temp(t)] = 1] = u(n) /\ [u(n) EXCEPT ![Temp(t)] = -1] = r(n)
             /\ \A k \in -1 .. 3 : [r(n) EXCEPT ![R] = k] = r(k) /\ [u(n) EXCEPT ![R] = k] = u(k)
             /\ r(n) \in Tidy(t, -1, n)
  <2>1. /\ r(n) \in Weights /\ r(n)[R] = n /\ r(n)[Temp(t)] = -1
        /\ [r(n) EXCEPT ![Temp(t)] = 1] = u(n) /\ r(n) \in Tidy(t, -1, n)
        /\ \A k \in -1 .. 3 : [r(n) EXCEPT ![R] = k] = r(k)
    BY <1>1, WithinFacts
  <2>2. /\ u(n) \in Weights /\ u(n)[R] = n /\ u(n)[Temp(t)] = 1
        /\ [u(n) EXCEPT ![Temp(t)] = -1] = r(n)
        /\ \A k \in -1 .. 3 : [u(n) EXCEPT ![R] = k] = u(k)
    BY <1>1, WithinFacts
  <2> QED
    BY <2>1, <2>2
<1>5. Account(1, r(3), NoTwin) \in X
  <2>1. r(3) \in Tidy(t, 1, 3)
    BY <1>1, <1>4, TidyLoose
  <2> HIDE DEF r
  <2> QED
    BY <1>1, <1>2, <2>1, CaughtWhenTidy
<1> HIDE DEF X, R, r, u
<1>6. Outline(t, Account(0, w, tw), <<Typing(R)>>, Account(0, r(1), NoTwin), X)
  <2>1. w[R] = -1 /\ [w EXCEPT ![R] = 1] = r(1)
    BY <1>1, <1>3, <1>4
  <2> QED
    BY <1>1, <1>2, <1>3, <2>1, OpenOutline DEF Typing
<1>7. ASSUME NEW d \in 0 .. 1, NEW n \in 1 .. 2
      PROVE  Outline(t, Account(d, r(n), NoTwin), <<Retaining(R)>>, Account(d, r(n + 1), NoTwin), X)
  <2>1. n \in -1 .. 3 /\ n + 1 \in -1 .. 3 /\ d \in 0 .. MaxDepth
    BY DEF MaxDepth
  <2>2. r(n) \in Weights /\ r(n)[R] = n /\ [r(n) EXCEPT ![R] = r(n)[R] + 1] = r(n + 1)
    BY <1>4, <2>1
  <2>3. Backed(Account(d, r(n), NoTwin), R) /\ r(n)[R] < 3
    <3>1. Account(d, r(n), NoTwin).weight = r(n)
      BY <1>2, <2>1, <2>2, AccountFields
    <3> QED
      BY <2>2, <3>1 DEF Backed
  <2> QED
    BY <1>2, <2>1, <2>2, <2>3, RetainOutline
<1>8. Outline(t, Account(0, r(1), NoTwin), UnderLock(<<Retaining(R)>>), Account(0, r(2), NoTwin), X)
  <2>1. 1 \in 0 .. 1 /\ 1 \in 1 .. 2 /\ 1 + 1 = 2
    OBVIOUS
  <2>2. Outline(t, Account(1, r(1), NoTwin), <<Retaining(R)>>, Account(1, r(2), NoTwin), X)
    BY <1>7, <2>1
  <2> QED
    BY <1>1, <1>2, <1>4, <2>2, UnderLockOutline
<1>9. Outline(t, Account(0, r(2), NoTwin), <<Retaining(R)>>, Account(0, r(3), NoTwin), X)
  <2>1. 0 \in 0 .. 1 /\ 2 \in 1 .. 2 /\ 2 + 1 = 3
    OBVIOUS
  <2> QED
    BY <1>7, <2>1
<1>10. Outline(t, Account(0, r(3), NoTwin), PropertyCtor(t), Account(0, u(3), NoTwin), X)
  BY <1>1, <1>2, <1>4, <1>5, PropertyCtorOutline
<1>11. ASSUME NEW d \in 0 .. 1, NEW n \in 2 .. 3
       PROVE  Outline(t, Account(d, u(n), NoTwin), <<Closing(R)>>, Account(d, u(n - 1), NoTwin), X)
  <2>1. n \in -1 .. 3 /\ n - 1 \in -1 .. 3 /\ d \in 0 .. MaxDepth
    BY DEF MaxDepth
  <2>2. u(n) \in Weights /\ u(n)[R] = n /\ [u(n) EXCEPT ![R] = u(n)[R] - 1] = u(n - 1)
    BY <1>4, <2>1
  <2>3. Lower(u(n), R) = u(n - 1)
    <3>1. (IF u(n)[R] = -1 THEN -1 ELSE u(n)[R] - 1) = u(n)[R] - 1
      BY <2>2
    <3> QED
      BY <2>2, <3>1 DEF Lower
  <2>4. u(n)[R] # 0
    BY <2>2
  <2> QED
    BY <1>2, <2>1, <2>2, <2>3, <2>4, CloseOutline
<1>12. Outline(t, Account(0, u(3), NoTwin), UnderLock(<<Closing(R)>>), Account(0, u(2), NoTwin), X)
  <2>1. 1 \in 0 .. 1 /\ 3 \in 2 .. 3 /\ 3 - 1 = 2
    OBVIOUS
  <2>2. Outline(t, Account(1, u(3), NoTwin), <<Closing(R)>>, Account(1, u(2), NoTwin), X)
    BY <1>11, <2>1
  <2> QED
    BY <1>1, <1>2, <1>4, <2>2, UnderLockOutline
<1>13. Outline(t, Account(0, u(2), NoTwin), <<Closing(R), Abandoning(R, 1)>>, Account(0, u(-1), NoTwin), X)
  <2>1. 0 \in 0 .. 1 /\ 2 \in 2 .. 3 /\ 2 - 1 = 1
    OBVIOUS
  <2>2. Outline(t, Account(0, u(2), NoTwin), <<Closing(R)>>, Account(0, u(1), NoTwin), X)
    BY <1>11, <2>1
  <2>3. u(1)[R] \in {1, -1} /\ [u(1) EXCEPT ![R] = -1] = u(-1) /\ u(1) \in Weights
    BY <1>1, <1>4
  <2>4. Outline(t, Account(0, u(1), NoTwin), <<Abandoning(R, 1)>>, Account(0, u(-1), NoTwin), X)
    BY <1>1, <1>2, <2>3, AbandonOutline
  <2>5. <<Closing(R), Abandoning(R, 1)>> = <<Closing(R)>> \o <<Abandoning(R, 1)>>
    BY Tuples
  <2> QED
    BY <2>2, <2>4, <2>5, OutlineJoin
<1>14. Outline(t, Account(0, u(-1), NoTwin), PropertyDtor(t), Account(0, w, NoTwin), X)
  <2>1. u(-1)[Temp(t)] \in {-1, 1} /\ [u(-1) EXCEPT ![Temp(t)] = -1] = w /\ u(-1) \in Weights
    BY <1>1, <1>3, <1>4
  <2> QED
    BY <1>2, <2>1, PropertyDtorOutline
<1>15. Outline(t, Account(0, w, tw), FillValue(t), Account(0, w, NoTwin), X)
  <2>1. Outline(t, Account(0, w, tw), <<Typing(R)>> \o UnderLock(<<Retaining(R)>>),
                Account(0, r(2), NoTwin), X)
    BY <1>6, <1>8, OutlineJoin
  <2>2. Outline(t, Account(0, w, tw),
                <<Typing(R)>> \o UnderLock(<<Retaining(R)>>) \o <<Retaining(R)>>,
                Account(0, r(3), NoTwin), X)
    BY <1>9, <2>1, OutlineJoin
  <2>3. Outline(t, Account(0, w, tw),
                <<Typing(R)>> \o UnderLock(<<Retaining(R)>>) \o <<Retaining(R)>> \o PropertyCtor(t),
                Account(0, u(3), NoTwin), X)
    BY <1>10, <2>2, OutlineJoin
  <2>4. Outline(t, Account(0, w, tw),
                <<Typing(R)>> \o UnderLock(<<Retaining(R)>>) \o <<Retaining(R)>> \o PropertyCtor(t)
                    \o UnderLock(<<Closing(R)>>),
                Account(0, u(2), NoTwin), X)
    BY <1>12, <2>3, OutlineJoin
  <2>5. Outline(t, Account(0, w, tw),
                <<Typing(R)>> \o UnderLock(<<Retaining(R)>>) \o <<Retaining(R)>> \o PropertyCtor(t)
                    \o UnderLock(<<Closing(R)>>) \o <<Closing(R), Abandoning(R, 1)>>,
                Account(0, u(-1), NoTwin), X)
    BY <1>13, <2>4, OutlineJoin
  <2>6. Outline(t, Account(0, w, tw),
                <<Typing(R)>> \o UnderLock(<<Retaining(R)>>) \o <<Retaining(R)>> \o PropertyCtor(t)
                    \o UnderLock(<<Closing(R)>>) \o <<Closing(R), Abandoning(R, 1)>> \o PropertyDtor(t),
                Account(0, w, NoTwin), X)
    BY <1>14, <2>5, OutlineJoin
  <2> QED
    BY <2>6 DEF FillValue, R
<1> QED
  BY <1>2, <1>15, EndsWhenTidy DEF X

\* h5::open: the id of the dataset is raw until it is handed to the wrapper.
LEMMA OpenDatasetOutline ==
    ASSUME NEW t \in Threads, NEW w \in Tidy(t, -1, -1), NEW tw \in Places \X Places,
           NEW p \in VariablesOf(t), NEW q \in Reach(t), w[p] = -1, NEW d \in 0 .. 1
    PROVE  Outline(t, Account(d, w, tw), Open(t, p, q), Account(d, Full(w, p), NoTwin),
                   Caught(t, -1, 1, {d}))
<1> DEFINE X == Caught(t, -1, 1, {d})
           R == Raw(t)
           w1 == Within(t, w, -1, 1)
           v == Full(w, p)
<1>1. -1 \in -1 .. 3 /\ 1 \in -1 .. 3 /\ d \in 0 .. MaxDepth /\ d \in {d}
  BY DEF MaxDepth
<1>2. /\ R \in Mine(t) /\ p \in Mine(t) /\ p # R /\ NoTwin \in Places \X Places
  BY ReachInPlaces
<1>3. w \in Weights /\ w \in Tidy(t, -1, 1) /\ w[R] = -1
  <2>1. w \in Tidy(t, -1, 1)
    BY TidyLoose
  <2> QED
    BY <2>1 DEF Tidy
<1>4. /\ [w EXCEPT ![R] = 1] = w1 /\ w1 \in Weights /\ w1 \in Tidy(t, -1, 1) /\ w1[R] = 1 /\ w1[p] = -1
  <2>1. w = Within(t, w, -1, -1) /\ [Within(t, w, -1, -1) EXCEPT ![R] = 1] = w1
    BY <1>1, WithinFacts
  <2>2. w1 \in Weights /\ w1 \in Tidy(t, -1, 1) /\ w1[R] = 1
    BY <1>1, WithinFacts
  <2>3. w1[p] = w[p]
    BY <1>1, WithinVariable
  <2> QED
    BY <2>1, <2>2, <2>3
<1>5. [[w1 EXCEPT ![p] = 1] EXCEPT ![R] = -1] = v
  <2>1. v \in Tidy(t, -1, -1) /\ [w1 EXCEPT ![p] = 1] = Within(t, v, -1, 1)
    <3>1. v \in Tidy(t, -1, -1) /\ Full(w1, p) = Within(t, v, -1, 1)
      BY <1>1, WithinUpdate
    <3> QED
      BY <3>1 DEF Full
  <2> HIDE DEF v
  <2>2. [Within(t, v, -1, 1) EXCEPT ![R] = -1] = Within(t, v, -1, -1) /\ Within(t, v, -1, -1) = v
    BY <1>1, <2>1, WithinFacts
  <2> QED
    BY <2>1, <2>2
<1>6. Account(d, w, tw) \in X /\ Account(d, w1, NoTwin) \in X
  BY <1>1, <1>2, <1>3, <1>4, CaughtWhenTidy
<1> HIDE DEF X, R, w1, v
<1>7. Outline(t, Account(d, w, tw), <<Opening(R, q)>>, Account(d, w1, NoTwin), X)
  BY <1>1, <1>2, <1>3, <1>4, <1>6, OpenOutline DEF Opening
<1>8. Outline(t, Account(d, w1, NoTwin), <<Describing(q)>>, Account(d, w1, NoTwin), X)
  BY <1>1, <1>2, <1>4, UseOutline
<1>9. Outline(t, Account(d, w1, NoTwin), <<Caching(q)>>, Account(d, w1, NoTwin), X)
  BY <1>1, <1>2, <1>4, <1>6, UseOutline
<1>10. Outline(t, Account(d, w1, NoTwin), <<Taking(p, R), Dropping(R)>>, Account(d, v, NoTwin), X)
  <2>1. w1[p] <= 0
    BY <1>4
  <2> QED
    BY <1>1, <1>2, <1>4, <1>5, <2>1, MoveOutline
<1>11. Outline(t, Account(d, w1, NoTwin), <<Caching(q), Taking(p, R), Dropping(R)>>,
               Account(d, v, NoTwin), X)
  <2>1. <<Caching(q), Taking(p, R), Dropping(R)>> = <<Caching(q)>> \o <<Taking(p, R), Dropping(R)>>
    BY Tuples
  <2> QED
    BY <1>9, <1>10, <2>1, OutlineJoin
<1>12. Outline(t, Account(d, w1, NoTwin), <<Describing(q), Caching(q), Taking(p, R), Dropping(R)>>,
               Account(d, v, NoTwin), X)
  <2>1. <<Describing(q), Caching(q), Taking(p, R), Dropping(R)>>
            = <<Describing(q)>> \o <<Caching(q), Taking(p, R), Dropping(R)>>
    BY Tuples
  <2> QED
    BY <1>8, <1>11, <2>1, OutlineJoin
<1>13. Open(t, p, q) = <<Opening(R, q)>> \o <<Describing(q), Caching(q), Taking(p, R), Dropping(R)>>
  BY Tuples DEF Open, R
<1>14. Outline(t, Account(d, w, tw), Open(t, p, q), Account(d, v, NoTwin), X)
  BY <1>7, <1>12, <1>13, OutlineJoin
<1> QED
  BY <1>14 DEF X, v

\* The gateways under their lock, up to the transfer.
LEMMA TransferOutline ==
    ASSUME NEW t \in Threads, NEW w \in Tidy(t, -1, -1), NEW tw \in Places \X Places,
           NEW p \in VariablesOf(t), NEW q \in Reach(t), w[p] = -1,
           NEW resolved \in Resolutions(p)
    PROVE  /\ Outline(t, Account(1, w, tw),
                      Open(t, p, q)
                          \o <<Getting(Raw(t), p), Closing(Raw(t)), Dropping(Raw(t))>>
                          \o resolved \o <<Transferring(p)>>,
                      Account(1, Full(w, p), NoTwin), Caught(t, -1, 1, {1}))
           /\ Outline(t, Account(1, w, tw),
                      Open(t, p, q) \o resolved
                          \o <<Getting(Raw(t), p), Closing(Raw(t)), Dropping(Raw(t)), Transferring(p)>>,
                      Account(1, Full(w, p), NoTwin), Caught(t, -1, 1, {1}))
<1> DEFINE X == Caught(t, -1, 1, {1})
           R == Raw(t)
           v == Full(w, p)
           r(n) == Within(t, v, -1, n)
<1>1. /\ -1 \in -1 .. 3 /\ 0 \in -1 .. 3 /\ 1 \in -1 .. 3 /\ 1 \in 0 .. 1 /\ 1 \in 0 .. MaxDepth
      /\ 1 \in {1}
  BY DEF MaxDepth
<1>2. /\ R \in Mine(t) /\ p \in Mine(t) /\ p \in Reach(t) /\ NoTwin \in Places \X Places
  BY ReachInPlaces DEF Reach
<1>3. v \in Tidy(t, -1, -1)
  BY <1>1, WithinUpdate
<1>4. v \in Weights /\ v[R] = -1 /\ Account(1, v, NoTwin) \in X
  <2>1. v \in Tidy(t, -1, 1)
    BY <1>3, TidyLoose
  <2>2. Account(1, v, NoTwin) \in X
    BY <1>1, <1>2, <2>1, CaughtWhenTidy
  <2> QED
    BY <1>3, <2>2 DEF Tidy
<1> HIDE DEF v
<1>5. /\ r(-1) = v /\ r(1) \in Weights /\ r(1)[R] = 1 /\ r(0) \in Weights /\ r(0)[R] = 0
      /\ [v EXCEPT ![R] = 1] = r(1) /\ [r(1) EXCEPT ![R] = 0] = r(0) /\ [r(0) EXCEPT ![R] = -1] = v
  <2>1. r(-1) = v /\ [r(-1) EXCEPT ![R] = 1] = r(1)
    BY <1>1, <1>3, WithinFacts
  <2>2. r(1) \in Weights /\ r(1)[R] = 1 /\ [r(1) EXCEPT ![R] = 0] = r(0)
    BY <1>1, <1>3, WithinFacts
  <2>3. r(0) \in Weights /\ r(0)[R] = 0 /\ [r(0) EXCEPT ![R] = -1] = r(-1)
    BY <1>1, <1>3, WithinFacts
  <2> QED
    BY <2>1, <2>2, <2>3
<1>6. Outline(t, Account(1, w, tw), Open(t, p, q), Account(1, v, NoTwin), X)
  BY <1>1, OpenDatasetOutline DEF v
<1> HIDE DEF X, R, r
<1>7. Outline(t, Account(1, v, NoTwin), <<Getting(R, p)>>, Account(1, r(1), NoTwin), X)
  BY <1>1, <1>2, <1>4, <1>5, OpenOutline DEF Getting
<1>8. Outline(t, Account(1, r(1), NoTwin), <<Closing(R)>>, Account(1, r(0), NoTwin), X)
  <2>1. r(1)[R] # 0
    BY <1>5
  <2>2. Lower(r(1), R) = r(0)
    <3>1. (IF r(1)[R] = -1 THEN -1 ELSE r(1)[R] - 1) = 0
      BY <1>5
    <3> QED
      BY <1>5, <3>1 DEF Lower
  <2> QED
    BY <1>1, <1>2, <1>5, <2>1, <2>2, CloseOutline
<1>9. Outline(t, Account(1, r(0), NoTwin), <<Dropping(R)>>, Account(1, v, NoTwin), X)
  <2>1. r(0)[R] <= 0
    BY <1>5
  <2> QED
    BY <1>1, <1>2, <1>5, <2>1, DropOutline
<1>10. Outline(t, Account(1, v, NoTwin), <<Transferring(p)>>, Account(1, v, NoTwin), X)
  BY <1>1, <1>2, <1>4, UseOutline
<1>r. Outline(t, Account(1, v, NoTwin), resolved, Account(1, v, NoTwin), X)
  <2>1. CASE resolved = <<>>
    BY <1>1, <1>2, <1>4, <2>1, AccountFields, OutlineNone
  <2>2. CASE resolved = <<Describing(p)>>
    BY <1>1, <1>2, <1>4, <2>2, UseOutline
  <2> QED
    BY <2>1, <2>2 DEF Resolutions
<1>c. Outline(t, Account(1, r(1), NoTwin), <<Closing(R), Dropping(R)>>, Account(1, v, NoTwin), X)
  <2>1. <<Closing(R), Dropping(R)>> = <<Closing(R)>> \o <<Dropping(R)>>
    BY Tuples
  <2> QED
    BY <1>8, <1>9, <2>1, OutlineJoin
<1>g. Outline(t, Account(1, v, NoTwin), <<Getting(R, p), Closing(R), Dropping(R)>>,
              Account(1, v, NoTwin), X)
  <2>1. <<Getting(R, p), Closing(R), Dropping(R)>> = <<Getting(R, p)>> \o <<Closing(R), Dropping(R)>>
    BY Tuples
  <2> QED
    BY <1>7, <1>c, <2>1, OutlineJoin
<1>11. Outline(t, Account(1, r(0), NoTwin), <<Dropping(R), Transferring(p)>>, Account(1, v, NoTwin), X)
  <2>1. <<Dropping(R), Transferring(p)>> = <<Dropping(R)>> \o <<Transferring(p)>>
    BY Tuples
  <2> QED
    BY <1>9, <1>10, <2>1, OutlineJoin
<1>12. Outline(t, Account(1, r(1), NoTwin), <<Closing(R), Dropping(R), Transferring(p)>>,
               Account(1, v, NoTwin), X)
  <2>1. <<Closing(R), Dropping(R), Transferring(p)>> = <<Closing(R)>> \o <<Dropping(R), Transferring(p)>>
    BY Tuples
  <2> QED
    BY <1>8, <1>11, <2>1, OutlineJoin
<1>13. Outline(t, Account(1, v, NoTwin), <<Getting(R, p), Closing(R), Dropping(R), Transferring(p)>>,
               Account(1, v, NoTwin), X)
  <2>1. <<Getting(R, p), Closing(R), Dropping(R), Transferring(p)>>
            = <<Getting(R, p)>> \o <<Closing(R), Dropping(R), Transferring(p)>>
    BY Tuples
  <2> QED
    BY <1>7, <1>12, <2>1, OutlineJoin
<1>14. Outline(t, Account(1, w, tw),
               Open(t, p, q) \o <<Getting(R, p), Closing(R), Dropping(R)>>
                   \o resolved \o <<Transferring(p)>>,
               Account(1, v, NoTwin), X)
  <2>1. Outline(t, Account(1, w, tw), Open(t, p, q) \o <<Getting(R, p), Closing(R), Dropping(R)>>,
                Account(1, v, NoTwin), X)
    BY <1>6, <1>g, OutlineJoin
  <2>2. Outline(t, Account(1, w, tw),
                Open(t, p, q) \o <<Getting(R, p), Closing(R), Dropping(R)>> \o resolved,
                Account(1, v, NoTwin), X)
    BY <1>r, <2>1, OutlineJoin
  <2> QED
    BY <1>10, <2>2, OutlineJoin
<1>15. Outline(t, Account(1, w, tw),
               Open(t, p, q) \o resolved
                   \o <<Getting(R, p), Closing(R), Dropping(R), Transferring(p)>>,
               Account(1, v, NoTwin), X)
  <2>1. Outline(t, Account(1, w, tw), Open(t, p, q) \o resolved, Account(1, v, NoTwin), X)
    BY <1>6, <1>r, OutlineJoin
  <2> QED
    BY <1>13, <2>1, OutlineJoin
<1> QED
  BY <1>14, <1>15 DEF X, R, v

\* ~ds_t of a local dataset, under d locks.
LEMMA DestroyLocalOutline ==
    ASSUME NEW t \in Threads, NEW w \in Weights, NEW tw \in Places \X Places,
           NEW p \in VariablesOf(t), NEW d \in 0 .. 1, NEW X, NEW v \in Weights,
           v[p] \in {-1, 1}, [v EXCEPT ![p] = -1] = w
    PROVE  /\ Lower(v, p) \in Weights
           /\ Outline(t, Account(d, v, tw), UnderLock(<<Closing(p)>>), Account(d, Lower(v, p), tw), X)
           /\ Outline(t, Account(d, Lower(v, p), tw), <<Dropping(p)>>, Account(d, w, NoTwin), X)
<1> DEFINE c == Lower(v, p)
<1>1. d \in 0 .. MaxDepth /\ d < MaxDepth /\ d + 1 \in 0 .. MaxDepth
  BY DEF MaxDepth
<1>2. p \in Mine(t) /\ p \in Places
  BY ReachInPlaces
<1>3. c[p] <= 0 /\ [c EXCEPT ![p] = -1] = w
  <2>1. c[p] <= 0
    BY <1>2 DEF Lower, Weights
  <2>2. [c EXCEPT ![p] = -1] = [v EXCEPT ![p] = -1]
    BY <1>2 DEF Lower, Weights
  <2> QED
    BY <2>1, <2>2
<1>4. /\ c \in Weights
      /\ Outline(t, Account(d + 1, v, tw), <<Closing(p)>>, Account(d + 1, c, tw), X)
  BY <1>1, <1>2, CloseOutline
<1> HIDE DEF c
<1>5. Outline(t, Account(d, v, tw), UnderLock(<<Closing(p)>>), Account(d, c, tw), X)
  BY <1>1, <1>4, UnderLockOutline
<1>6. Outline(t, Account(d, c, tw), <<Dropping(p)>>, Account(d, w, NoTwin), X)
  BY <1>1, <1>2, <1>3, <1>4, DropOutline
<1> QED
  BY <1>4, <1>5, <1>6 DEF c

\* h5::write(fd, path, ..., q) and h5::read(fd, path, q)
LEMMA GatewayOutline ==
    ASSUME NEW t \in Threads, NEW w \in Tidy(t, -1, -1), NEW tw \in Places \X Places,
           NEW p \in VariablesOf(t), NEW q \in Reach(t), w[p] = -1,
           NEW resolved \in Resolutions(p),
           NEW steps \in {Write(t, p, q, resolved), Read(t, p, q, resolved)}
    PROVE  \E b \in Ends(t) : Outline(t, Account(0, w, tw), steps, b, Caught(t, -1, 1, {1}))
<1> DEFINE X == Caught(t, -1, 1, {1})
           v == Full(w, p)
           out == Open(t, p, q) \o <<Getting(Raw(t), p), Closing(Raw(t)), Dropping(Raw(t))>>
                      \o resolved \o <<Transferring(p)>>
           body == Open(t, p, q) \o resolved
                     \o <<Getting(Raw(t), p), Closing(Raw(t)), Dropping(Raw(t)), Transferring(p)>>
<1>1. -1 \in -1 .. 3 /\ 1 \in 0 .. 1 /\ 0 \in 0 .. MaxDepth /\ 0 < MaxDepth /\ 0 + 1 = 1
  BY DEF MaxDepth
<1>2. NoTwin \in Places \X Places /\ p \in Places /\ w \in Weights
  BY ReachInPlaces DEF Tidy
<1>3. v \in Tidy(t, -1, -1)
  BY <1>1, WithinUpdate
<1>4. v \in Weights /\ v[p] \in {-1, 1} /\ [v EXCEPT ![p] = -1] = w
  <2>1. v \in Weights
    BY <1>3 DEF Tidy
  <2>2. v[p] = 1 /\ [v EXCEPT ![p] = -1] = w
    BY <1>2 DEF Full, Weights
  <2> QED
    BY <2>1, <2>2
<1>5. /\ Outline(t, Account(1, w, tw), out, Account(1, v, NoTwin), X)
      /\ Outline(t, Account(1, w, tw), body, Account(1, v, NoTwin), X)
  BY TransferOutline
<1> HIDE DEF X, v, out, body
<1>6. CASE steps = Write(t, p, q, resolved)
  <2>1. Outline(t, Account(0, w, tw), UnderLock(out), Account(0, v, NoTwin), X)
    BY <1>1, <1>2, <1>4, <1>5, UnderLockOutline
  <2>2. steps = UnderLock(out)
    BY <1>6 DEF Write, out
  <2> QED
    BY <1>2, <1>3, <2>1, <2>2, EndsWhenTidy DEF X
<1>7. CASE steps = Read(t, p, q, resolved)
  <2>2. /\ Outline(t, Account(1, v, NoTwin), UnderLock(<<Closing(p)>>), Account(1, Lower(v, p), NoTwin), X)
        /\ Outline(t, Account(1, Lower(v, p), NoTwin), <<Dropping(p)>>, Account(1, w, NoTwin), X)
    BY <1>1, <1>2, <1>4, DestroyLocalOutline
  <2>3. Outline(t, Account(1, w, tw), body \o UnderLock(<<Closing(p)>>), Account(1, Lower(v, p), NoTwin), X)
    BY <1>5, <2>2, OutlineJoin
  <2>4. Outline(t, Account(1, w, tw), body \o UnderLock(<<Closing(p)>>) \o <<Dropping(p)>>,
                Account(1, w, NoTwin), X)
    BY <2>2, <2>3, OutlineJoin
  <2>5. Outline(t, Account(0, w, tw), UnderLock(body \o UnderLock(<<Closing(p)>>) \o <<Dropping(p)>>),
                Account(0, w, NoTwin), X)
    BY <1>1, <1>2, <2>4, UnderLockOutline
  <2>6. steps = UnderLock(body \o UnderLock(<<Closing(p)>>) \o <<Dropping(p)>>)
    BY <1>7 DEF Read, body
  <2> QED
    BY <1>2, <2>5, <2>6, EndsWhenTidy DEF X
<1> QED
  BY <1>6, <1>7

(***************************************************************************)
(* Outlines of what an exception does                                      *)
(***************************************************************************)
\* The locks alive are released one by one.
Unlocks(n) == [k \in 1 .. n |-> Unlocking]

\* The exception of a call in an account of X leads to an end of the operation.
Handled(t, X, within, after) ==
    \A x \in X : \E e \in Ends(t) : Outline(t, x, within \o Unlocks(x.depth) \o after, e, {})

\* What an account consists of.
LEMMA AccountParts ==
    ASSUME NEW a \in Accounts
    PROVE  /\ a.depth \in 0 .. MaxDepth /\ a.weight \in Weights /\ a.twin \in Places \X Places
           /\ a = Account(a.depth, a.weight, a.twin)
BY DEF Accounts, Account

\* The locks alive are released, innermost first.
LEMMA UnlocksOutline ==
    ASSUME NEW t \in Threads, NEW d \in 0 .. MaxDepth, NEW w \in Weights,
           NEW tw \in Places \X Places, NEW X
    PROVE  Outline(t, Account(d, w, tw), Unlocks(d), Account(0, w, tw), X)
<1>1. d = 0 \/ d = 1 \/ d = 2
  BY DEF MaxDepth
<1>2. /\ 0 \in 0 .. MaxDepth /\ 0 < MaxDepth /\ 0 + 1 = 1
      /\ 1 \in 0 .. MaxDepth /\ 1 < MaxDepth /\ 1 + 1 = 2
  BY DEF MaxDepth
<1>3. Outline(t, Account(1, w, tw), <<Unlocking>>, Account(0, w, tw), X)
  BY <1>2, UnlockOutline
<1>4. Outline(t, Account(2, w, tw), <<Unlocking>>, Account(1, w, tw), X)
  BY <1>2, UnlockOutline
<1>5. CASE d = 0
  <2>1. Unlocks(0) = <<>>
    BY DEF Unlocks
  <2> QED
    BY <1>5, <2>1, AccountFields, OutlineNone
<1>6. CASE d = 1
  <2>1. Unlocks(1) = <<Unlocking>>
    BY DEF Unlocks
  <2> QED
    BY <1>3, <1>6, <2>1
<1>7. CASE d = 2
  <2>1. Unlocks(2) = <<Unlocking, Unlocking>>
    BY DEF Unlocks
  <2>2. <<Unlocking, Unlocking>> = <<Unlocking>> \o <<Unlocking>>
    BY Tuples
  <2> QED
    BY <1>3, <1>4, <1>7, <2>1, <2>2, OutlineJoin
<1> QED
  BY <1>1, <1>5, <1>6, <1>7

\* With nothing to do before the locks are released.
LEMMA HandledBehind ==
    ASSUME NEW t \in Threads, NEW X \in SUBSET Accounts, NEW after,
           \A x \in X : \E e \in Ends(t) : Outline(t, Account(0, x.weight, x.twin), after, e, {})
    PROVE  Handled(t, X, <<>>, after)
<1> SUFFICES ASSUME NEW x \in X
             PROVE  \E e \in Ends(t) : Outline(t, x, <<>> \o Unlocks(x.depth) \o after, e, {})
  BY DEF Handled
<1>1. PICK e \in Ends(t) : Outline(t, Account(0, x.weight, x.twin), after, e, {})
  OBVIOUS
<1>2. /\ x.depth \in 0 .. MaxDepth /\ x.weight \in Weights /\ x.twin \in Places \X Places
      /\ x = Account(x.depth, x.weight, x.twin)
  BY AccountParts
<1>3. Outline(t, x, <<>>, x, {})
  BY OutlineNone
<1>4. Outline(t, x, Unlocks(x.depth), Account(0, x.weight, x.twin), {})
  BY <1>2, UnlocksOutline
<1>5. Outline(t, x, <<>> \o Unlocks(x.depth), Account(0, x.weight, x.twin), {})
  BY <1>3, <1>4, OutlineJoin
<1>6. Outline(t, x, <<>> \o Unlocks(x.depth) \o after, e, {})
  BY <1>1, <1>5, OutlineJoin
<1> QED
  BY <1>6

\* A caught account, its locks released.
LEMMA CaughtParts ==
    ASSUME NEW t \in Threads, NEW m \in -1 .. 3, NEW n \in -1 .. 3, NEW D, NEW x \in Caught(t, m, n, D)
    PROVE  /\ x \in Accounts /\ x.depth \in D /\ x.twin \in Places \X Places
           /\ x.weight \in Tidy(t, m, n) /\ x.weight \in Weights
BY AccountParts DEF Caught

\* An exception of a conversion: the temporary is destroyed, and nothing is
\* left behind.
LEMMA ConvertHandled ==
    ASSUME NEW t \in Threads
    PROVE  Handled(t, Caught(t, 1, -1, {1, 2}), <<>>, PropertyDtor(t))
<1>1. -1 \in -1 .. 3 /\ 1 \in -1 .. 3
  OBVIOUS
<1>2. ASSUME NEW x \in Caught(t, 1, -1, {1, 2})
      PROVE  \E e \in Ends(t) : Outline(t, Account(0, x.weight, x.twin), PropertyDtor(t), e, {})
  <2> DEFINE w == x.weight
  <2>1. x.twin \in Places \X Places /\ w \in Weights /\ w \in Tidy(t, 1, -1)
    BY <1>1, CaughtParts
  <2> HIDE DEF w
  <2>2. w[Temp(t)] \in {-1, 1} /\ [w EXCEPT ![Temp(t)] = -1] \in Tidy(t, -1, -1)
    BY <1>1, <2>1, TidyTemporaries
  <2>3. Outline(t, Account(0, w, x.twin), PropertyDtor(t),
                Account(0, [w EXCEPT ![Temp(t)] = -1], NoTwin), {})
    BY <2>1, <2>2, PropertyDtorOutline
  <2>4. Account(0, [w EXCEPT ![Temp(t)] = -1], NoTwin) \in Ends(t)
    BY <2>2, ReachInPlaces, EndsWhenTidy
  <2> QED
    BY <2>3, <2>4, Zenon DEF w
<1>3. Caught(t, 1, -1, {1, 2}) \subseteq Accounts
  BY DEF Caught
<1> QED
  BY <1>2, <1>3, HandledBehind

\* An exception of a chain: the copy of the list is left open, and counted as
\* lost.
LEMMA ChainHandled ==
    ASSUME NEW t \in Threads
    PROVE  Handled(t, Caught(t, 1, 1, {1, 2}), <<>>, PropertyDtor(t) \o <<Abandoning(Raw(t), 1)>>)
<1>1. -1 \in -1 .. 3 /\ 1 \in -1 .. 3 /\ 1 \in 1 .. 2 /\ 0 \in 0 .. MaxDepth
  BY DEF MaxDepth
<1>2. ASSUME NEW x \in Caught(t, 1, 1, {1, 2})
      PROVE  \E e \in Ends(t) : Outline(t, Account(0, x.weight, x.twin),
                                        PropertyDtor(t) \o <<Abandoning(Raw(t), 1)>>, e, {})
  <2> DEFINE w == x.weight
             v == [w EXCEPT ![Temp(t)] = -1]
             u == [v EXCEPT ![Raw(t)] = -1]
  <2>1. x.twin \in Places \X Places /\ w \in Weights /\ w \in Tidy(t, 1, 1)
    BY <1>1, CaughtParts
  <2>2. NoTwin \in Places \X Places /\ Raw(t) \in Mine(t)
    BY ReachInPlaces
  <2> HIDE DEF w
  <2>3. w[Temp(t)] \in {-1, 1} /\ v \in Tidy(t, -1, 1)
    BY <1>1, <2>1, TidyTemporaries
  <2>4. Outline(t, Account(0, w, x.twin), PropertyDtor(t), Account(0, v, NoTwin), {})
    BY <2>1, <2>3, PropertyDtorOutline
  <2> HIDE DEF v
  <2>5. v \in Weights /\ v[Raw(t)] \in {-1, 1} /\ u \in Tidy(t, -1, -1)
    BY <1>1, <2>3, TidyTemporaries
  <2>6. v[Raw(t)] \in {1, -1}
    BY <2>5
  <2>7. Outline(t, Account(0, v, NoTwin), <<Abandoning(Raw(t), 1)>>, Account(0, u, NoTwin), {})
    BY <1>1, <2>2, <2>5, <2>6, AbandonOutline
  <2>8. Outline(t, Account(0, w, x.twin), PropertyDtor(t) \o <<Abandoning(Raw(t), 1)>>,
                Account(0, u, NoTwin), {})
    BY <2>4, <2>7, OutlineJoin
  <2>9. Account(0, u, NoTwin) \in Ends(t)
    BY <2>2, <2>5, EndsWhenTidy
  <2> QED
    BY <2>8, <2>9, Zenon DEF w
<1>3. Caught(t, 1, 1, {1, 2}) \subseteq Accounts
  BY DEF Caught
<1> QED
  BY <1>2, <1>3, HandledBehind

\* An exception of a fill value: the type is left open, and counted as lost.
LEMMA FillValueHandled ==
    ASSUME NEW t \in Threads
    PROVE  Handled(t, Caught(t, 1, 3, {1}), <<>>,
                   PropertyDtor(t) \o UnderLock(<<Closing(Raw(t))>>) \o <<Abandoning(Raw(t), 2)>>)
<1>1. /\ -1 \in -1 .. 3 /\ 1 \in -1 .. 3 /\ 2 \in -1 .. 3 /\ 3 \in -1 .. 3 /\ 2 \in 1 .. 2
      /\ 0 \in 0 .. MaxDepth /\ 0 < MaxDepth /\ 0 + 1 \in 0 .. MaxDepth /\ 3 > 0 /\ 3 - 1 = 2
  BY DEF MaxDepth
<1>2. ASSUME NEW x \in Caught(t, 1, 3, {1})
      PROVE  \E e \in Ends(t) :
                 Outline(t, Account(0, x.weight, x.twin),
                         PropertyDtor(t) \o UnderLock(<<Closing(Raw(t))>>) \o <<Abandoning(Raw(t), 2)>>,
                         e, {})
  <2> DEFINE w == x.weight
             v == [w EXCEPT ![Temp(t)] = -1]
             c == Lower(v, Raw(t))
             u == [c EXCEPT ![Raw(t)] = -1]
  <2>1. x.twin \in Places \X Places /\ w \in Weights /\ w \in Tidy(t, 1, 3)
    BY <1>1, CaughtParts
  <2>2. NoTwin \in Places \X Places /\ Raw(t) \in Mine(t)
    BY ReachInPlaces
  <2> HIDE DEF w
  <2>3. w[Temp(t)] \in {-1, 1} /\ v \in Tidy(t, -1, 3)
    BY <1>1, <2>1, TidyTemporaries
  <2>4. Outline(t, Account(0, w, x.twin), PropertyDtor(t), Account(0, v, NoTwin), {})
    BY <2>1, <2>3, PropertyDtorOutline
  <2> HIDE DEF v
  <2>5. v \in Weights /\ v[Raw(t)] \in {-1, 3} /\ c \in Tidy(t, -1, 2)
    <3>1. v \in Weights /\ v[Raw(t)] \in {-1, 3}
      BY <1>1, <2>3, TidyTemporaries
    <3>2. c \in Tidy(t, -1, 3 - 1)
      BY <1>1, <2>3, TidyTemporaries
    <3> QED
      BY <1>1, <3>1, <3>2
  <2>6. v[Raw(t)] # 0
    BY <2>5
  <2>7. c \in Weights /\ Outline(t, Account(0 + 1, v, NoTwin), <<Closing(Raw(t))>>, Account(0 + 1, c, NoTwin), {})
    BY <1>1, <2>2, <2>5, <2>6, CloseOutline
  <2> HIDE DEF c
  <2>8. Outline(t, Account(0, v, NoTwin), UnderLock(<<Closing(Raw(t))>>), Account(0, c, NoTwin), {})
    BY <1>1, <2>2, <2>5, <2>7, UnderLockOutline
  <2>9. c[Raw(t)] \in {-1, 2} /\ u \in Tidy(t, -1, -1)
    BY <1>1, <2>5, TidyTemporaries
  <2>10. c[Raw(t)] \in {2, -1}
    BY <2>9
  <2>11. Outline(t, Account(0, c, NoTwin), <<Abandoning(Raw(t), 2)>>, Account(0, u, NoTwin), {})
    BY <1>1, <2>2, <2>7, <2>10, AbandonOutline
  <2>12. Outline(t, Account(0, w, x.twin), PropertyDtor(t) \o UnderLock(<<Closing(Raw(t))>>),
                 Account(0, c, NoTwin), {})
    BY <2>4, <2>8, OutlineJoin
  <2>13. Outline(t, Account(0, w, x.twin),
                 PropertyDtor(t) \o UnderLock(<<Closing(Raw(t))>>) \o <<Abandoning(Raw(t), 2)>>,
                 Account(0, u, NoTwin), {})
    BY <2>11, <2>12, OutlineJoin
  <2>14. Account(0, u, NoTwin) \in Ends(t)
    BY <2>2, <2>9, EndsWhenTidy
  <2> QED
    BY <2>13, <2>14, Zenon DEF w
<1>3. Caught(t, 1, 3, {1}) \subseteq Accounts
  BY DEF Caught
<1> QED
  BY <1>2, <1>3, HandledBehind

\* An exception of h5::open: the dataset is left open, and counted as lost.
LEMMA OpenDatasetHandled ==
    ASSUME NEW t \in Threads
    PROVE  Handled(t, Caught(t, -1, 1, {0}), <<>>, <<Abandoning(Raw(t), 1)>>)
<1>1. -1 \in -1 .. 3 /\ 1 \in -1 .. 3 /\ 1 \in 1 .. 2 /\ 0 \in 0 .. MaxDepth
  BY DEF MaxDepth
<1>2. ASSUME NEW x \in Caught(t, -1, 1, {0})
      PROVE  \E e \in Ends(t) : Outline(t, Account(0, x.weight, x.twin), <<Abandoning(Raw(t), 1)>>, e, {})
  <2> DEFINE w == x.weight
             u == [w EXCEPT ![Raw(t)] = -1]
  <2>1. x.twin \in Places \X Places /\ w \in Weights /\ w \in Tidy(t, -1, 1)
    BY <1>1, CaughtParts
  <2>2. NoTwin \in Places \X Places /\ Raw(t) \in Mine(t)
    BY ReachInPlaces
  <2> HIDE DEF w
  <2>3. w[Raw(t)] \in {-1, 1} /\ u \in Tidy(t, -1, -1)
    BY <1>1, <2>1, TidyTemporaries
  <2>4. w[Raw(t)] \in {1, -1}
    BY <2>3
  <2>5. Outline(t, Account(0, w, x.twin), <<Abandoning(Raw(t), 1)>>, Account(0, u, NoTwin), {})
    BY <1>1, <2>1, <2>2, <2>4, AbandonOutline
  <2>6. Account(0, u, NoTwin) \in Ends(t)
    BY <2>2, <2>3, EndsWhenTidy
  <2> QED
    BY <2>5, <2>6, Zenon DEF w
<1>3. Caught(t, -1, 1, {0}) \subseteq Accounts
  BY DEF Caught
<1> QED
  BY <1>2, <1>3, HandledBehind

\* The dataset of the gateway is destroyed under the lock of the gateway.
LEMMA GatewayHandled ==
    ASSUME NEW t \in Threads, NEW p \in VariablesOf(t)
    PROVE  Handled(t, Caught(t, -1, 1, {1}),
                   UnderLock(<<Closing(p)>>) \o <<Dropping(p)>>, <<Abandoning(Raw(t), 1)>>)
<1>1. /\ -1 \in -1 .. 3 /\ 1 \in -1 .. 3 /\ -1 \in {-1, 1} /\ 1 \in 1 .. 2 /\ 1 \in 0 .. 1
      /\ 0 \in 0 .. MaxDepth /\ 1 \in 0 .. MaxDepth
  BY DEF MaxDepth
<1> SUFFICES ASSUME NEW x \in Caught(t, -1, 1, {1})
             PROVE  \E e \in Ends(t) :
                        Outline(t, x, UnderLock(<<Closing(p)>>) \o <<Dropping(p)>> \o Unlocks(x.depth)
                                          \o <<Abandoning(Raw(t), 1)>>, e, {})
  BY DEF Handled
<1> DEFINE w == x.weight
           v == [w EXCEPT ![p] = -1]
           u == [v EXCEPT ![Raw(t)] = -1]
<1>2. x \in Accounts /\ x.depth = 1 /\ x.twin \in Places \X Places /\ w \in Weights /\ w \in Tidy(t, -1, 1)
  BY <1>1, CaughtParts
<1>3. x = Account(1, w, x.twin)
  BY <1>2, AccountParts
<1>4. NoTwin \in Places \X Places /\ Raw(t) \in Mine(t)
  BY ReachInPlaces
<1> HIDE DEF w
<1>5. v \in Tidy(t, -1, 1) /\ w[p] \in {-1, 1}
  <2>1. v \in Tidy(t, -1, 1)
    BY <1>1, <1>2, TidyUpdate
  <2> QED
    BY <1>2, <2>1 DEF Tidy
<1>6. v \in Weights /\ v[Raw(t)] \in {-1, 1} /\ u \in Tidy(t, -1, -1)
  <2> HIDE DEF v
  <2> QED
    BY <1>1, <1>5, TidyTemporaries
<1>7. v[Raw(t)] \in {1, -1}
  BY <1>6
<1>8. /\ Lower(w, p) \in Weights
      /\ Outline(t, x, UnderLock(<<Closing(p)>>), Account(1, Lower(w, p), x.twin), {})
      /\ Outline(t, Account(1, Lower(w, p), x.twin), <<Dropping(p)>>, Account(1, v, NoTwin), {})
  <2>1. [w EXCEPT ![p] = -1] = v
    OBVIOUS
  <2> HIDE DEF v
  <2>2. /\ Lower(w, p) \in Weights
        /\ Outline(t, Account(1, w, x.twin), UnderLock(<<Closing(p)>>), Account(1, Lower(w, p), x.twin), {})
        /\ Outline(t, Account(1, Lower(w, p), x.twin), <<Dropping(p)>>, Account(1, v, NoTwin), {})
    BY <1>1, <1>2, <1>5, <1>6, <2>1, DestroyLocalOutline
  <2> QED
    BY <1>3, <2>2
<1> HIDE DEF v
<1>9. Outline(t, Account(1, v, NoTwin), Unlocks(x.depth), Account(0, v, NoTwin), {})
  BY <1>1, <1>2, <1>4, <1>6, UnlocksOutline
<1>10. Outline(t, Account(0, v, NoTwin), <<Abandoning(Raw(t), 1)>>, Account(0, u, NoTwin), {})
  BY <1>1, <1>4, <1>6, <1>7, AbandonOutline
<1> HIDE DEF u
<1>11. Outline(t, x, UnderLock(<<Closing(p)>>) \o <<Dropping(p)>>, Account(1, v, NoTwin), {})
  BY <1>8, OutlineJoin
<1>12. Outline(t, x, UnderLock(<<Closing(p)>>) \o <<Dropping(p)>> \o Unlocks(x.depth),
               Account(0, v, NoTwin), {})
  BY <1>9, <1>11, OutlineJoin
<1>13. Outline(t, x, UnderLock(<<Closing(p)>>) \o <<Dropping(p)>> \o Unlocks(x.depth)
                        \o <<Abandoning(Raw(t), 1)>>, Account(0, u, NoTwin), {})
  BY <1>10, <1>12, OutlineJoin
<1>14. Account(0, u, NoTwin) \in Ends(t)
  BY <1>4, <1>6, EndsWhenTidy
<1> QED
  BY <1>13, <1>14, Zenon

(***************************************************************************)
(* The lock                                                                *)
(***************************************************************************)
\* Nobody has a lock at the start.
LEMMA LockInvInit == LockInit => LockInv
BY LockAssumption DEF LockInit, LockInv, LockTypeOK

\* Taking the lock, outermost or nested, keeps the depth, the stack of top_
\* and the mutex in step.
LEMMA LockKeeps ==
    ASSUME LockInv, NEW t \in Threads, Lock(t)
    PROVE  LockInv'
<1> DEFINE top == depth[t] = 0
<1>1. /\ top => mutex = NoThread
      /\ mutex' = IF top THEN t ELSE mutex
      /\ depth' = [depth EXCEPT ![t] = @ + 1]
      /\ tops' = [tops EXCEPT ![t] = Append(@, top)]
      /\ inside' = inside
  BY DEF Lock
<1>2. /\ depth \in [Threads -> Nat] /\ tops \in [Threads -> Seq(BOOLEAN)]
      /\ mutex \in Threads \cup {NoThread} /\ inside \subseteq Threads
  BY DEF LockInv, LockTypeOK
<1>3. LockTypeOK'
  <2>1. Append(tops[t], top) \in Seq(BOOLEAN)
    BY <1>2
  <2> QED
    BY <1>1, <1>2, <2>1 DEF LockTypeOK
<1>4. ASSUME NEW u \in Threads
      PROVE  /\ depth'[u] = Len(tops'[u])
             /\ \A i \in 1 .. Len(tops'[u]) : tops'[u][i] <=> i = 1
             /\ depth'[u] > 0 <=> mutex' = u
  <2>1. /\ depth[u] = Len(tops[u])
        /\ \A i \in 1 .. Len(tops[u]) : tops[u][i] <=> i = 1
        /\ depth[u] > 0 <=> mutex = u
        /\ depth[t] > 0 <=> mutex = t
        /\ depth[t] = Len(tops[t])
    BY DEF LockInv
  <2>2. CASE u # t
    <3>1. depth'[u] = depth[u] /\ tops'[u] = tops[u]
      BY <1>1, <1>2, <2>2
    <3>2. mutex' = u <=> mutex = u
      BY <1>1, <1>2, <2>1, <2>2, LockAssumption
    <3> QED
      BY <2>1, <3>1, <3>2
  <2>3. CASE u = t
    <3>1. depth'[t] = depth[t] + 1 /\ tops'[t] = Append(tops[t], top)
      BY <1>1, <1>2
    <3>2. Len(Append(tops[t], top)) = Len(tops[t]) + 1
      BY <1>2
    <3>3. ASSUME NEW i \in 1 .. Len(tops[t]) + 1
          PROVE  Append(tops[t], top)[i] <=> i = 1
      <4>1. CASE i = Len(tops[t]) + 1
        <5>1. Append(tops[t], top)[i] = top
          BY <1>2, <4>1
        <5>2. top <=> i = 1
          BY <1>2, <2>1, <4>1 DEF top
        <5> QED
          BY <5>1, <5>2, Zenon
      <4>2. CASE i \in 1 .. Len(tops[t])
        BY <1>2, <2>1, <2>3, <4>2
      <4> QED
        BY <1>2, <4>1, <4>2
    <3>4. mutex' = t /\ depth[t] + 1 > 0
      BY <1>1, <1>2, <2>1
    <3> QED
      BY <2>1, <2>3, <3>1, <3>2, <3>3, <3>4
  <2> QED
    BY <2>2, <2>3
<1> QED
  BY <1>3, <1>4 DEF LockInv

\* Only the outermost lock releases the mutex, and it is the last one alive.
LEMMA UnlockKeeps ==
    ASSUME LockInv, NEW t \in Threads, Unlock(t)
    PROVE  LockInv'
<1>1. /\ tops[t] # <<>>
      /\ mutex' = IF Innermost(t) THEN NoThread ELSE mutex
      /\ depth' = [depth EXCEPT ![t] = @ - 1]
      /\ tops' = [tops EXCEPT ![t] = SubSeq(@, 1, Len(@) - 1)]
      /\ inside' = inside
  BY DEF Unlock
<1>2. /\ depth \in [Threads -> Nat] /\ tops \in [Threads -> Seq(BOOLEAN)]
      /\ mutex \in Threads \cup {NoThread} /\ inside \subseteq Threads
  BY DEF LockInv, LockTypeOK
<1>3. /\ \A u \in Threads : depth[u] = Len(tops[u]) /\ (depth[u] > 0 <=> mutex = u)
      /\ \A u \in Threads : \A i \in 1 .. Len(tops[u]) : tops[u][i] <=> i = 1
  BY DEF LockInv
<1>4. Len(tops[t]) \in Nat /\ Len(tops[t]) > 0
  BY <1>1, <1>2, EmptySeq, LenProperties
<1>5. mutex = t
  BY <1>3, <1>4
<1>6. Innermost(t) <=> Len(tops[t]) = 1
  <2>1. Len(tops[t]) \in 1 .. Len(tops[t])
    BY <1>4
  <2>2. tops[t][Len(tops[t])] <=> Len(tops[t]) = 1
    BY <1>3, <2>1, Zenon
  <2> QED
    BY <2>2, Zenon DEF Innermost
<1>7. /\ SubSeq(tops[t], 1, Len(tops[t]) - 1) \in Seq(BOOLEAN)
      /\ Len(SubSeq(tops[t], 1, Len(tops[t]) - 1)) = Len(tops[t]) - 1
      /\ \A i \in 1 .. Len(tops[t]) - 1 : SubSeq(tops[t], 1, Len(tops[t]) - 1)[i] = tops[t][i]
  <2>1. \A i \in 1 .. Len(tops[t]) - 1 : tops[t][i] \in BOOLEAN
    BY <1>2, <1>4
  <2>2. \A i \in 1 .. Len(tops[t]) - 1 : 1 + i - 1 = i
    OBVIOUS
  <2> QED
    BY <1>4, <2>1, <2>2, SubSeqProperties
<1>8. LockTypeOK'
  <2>1. depth[t] - 1 \in Nat
    BY <1>3, <1>4
  <2> QED
    BY <1>1, <1>2, <1>7, <2>1 DEF LockTypeOK
<1>9. ASSUME NEW u \in Threads
      PROVE  /\ depth'[u] = Len(tops'[u])
             /\ \A i \in 1 .. Len(tops'[u]) : tops'[u][i] <=> i = 1
             /\ depth'[u] > 0 <=> mutex' = u
  <2>1. CASE u # t
    <3>1. depth'[u] = depth[u] /\ tops'[u] = tops[u]
      BY <1>1, <1>2, <2>1
    <3>2. mutex # u /\ mutex' # u
      BY <1>1, <1>5, <2>1, LockAssumption
    <3> QED
      BY <1>3, <3>1, <3>2
  <2>2. CASE u = t
    <3>1. /\ depth'[t] = depth[t] - 1
          /\ tops'[t] = SubSeq(tops[t], 1, Len(tops[t]) - 1)
      BY <1>1, <1>2
    <3>2. depth[t] - 1 > 0 <=> mutex' = t
      <4>1. CASE Innermost(t)
        BY <1>1, <1>3, <1>6, <4>1, LockAssumption
      <4>2. CASE ~Innermost(t)
        <5>1. mutex' = t
          BY <1>1, <1>5, <4>2
        <5>2. Len(tops[t]) # 1
          BY <1>6, <4>2, Zenon
        <5>3. depth[t] = Len(tops[t])
          BY <1>3, Zenon
        <5>4. \A n \in Nat : n > 0 /\ n # 1 => n - 1 > 0
          OBVIOUS
        <5>5. depth[t] - 1 > 0
          BY <1>4, <5>2, <5>3, <5>4, Zenon
        <5> QED
          BY <5>1, <5>5, Zenon
      <4> QED
        BY <4>1, <4>2
    <3>3. \A i \in 1 .. Len(tops'[t]) : tops'[t][i] <=> i = 1
      BY <1>3, <1>4, <1>7, <3>1
    <3> QED
      BY <1>3, <1>7, <2>2, <3>1, <3>2, <3>3
  <2> QED
    BY <2>1, <2>2
<1> QED
  BY <1>8, <1>9 DEF LockInv

\* Constructing, destroying, entering and leaving: depth, stack and mutex stay in step.
LEMMA LockInvStep == LockInv /\ [LockNext]_lockVars => LockInv'
<1> SUFFICES ASSUME LockInv, [LockNext]_lockVars
             PROVE  LockInv'
  OBVIOUS
<1>1. ASSUME NEW t \in Threads, Lock(t)
      PROVE  LockInv'
  BY <1>1, LockKeeps
<1>2. ASSUME NEW t \in Threads, Unlock(t)
      PROVE  LockInv'
  BY <1>2, UnlockKeeps
<1>3. ASSUME NEW t \in Threads, Enter(t)
      PROVE  LockInv'
  BY <1>3 DEF LockInv, LockTypeOK, Enter
<1>4. ASSUME NEW t \in Threads, Leave(t)
      PROVE  LockInv'
  BY <1>4 DEF LockInv, LockTypeOK, Leave
<1>5. CASE UNCHANGED lockVars
  BY <1>5 DEF LockInv, LockTypeOK, lockVars
<1> QED
  BY <1>1, <1>2, <1>3, <1>4, <1>5 DEF LockNext

\* Who calls the library under a lock has the mutex, and only one can.
LEMMA LockInvExcludes == LockInv => Exclusive
<1> SUFFICES ASSUME LockInv, NEW t \in inside, NEW u \in inside, t # u,
                    depth[t] # 0, depth[u] # 0
             PROVE  FALSE
  BY DEF Exclusive
<1>1. t \in Threads /\ u \in Threads /\ depth[t] > 0 /\ depth[u] > 0
  BY DEF LockInv, LockTypeOK
<1> QED
  BY <1>1 DEF LockInv

\* Whatever a program does with its locks, in any number of threads and to
\* any depth, two threads are inside the C library at once only if one of
\* them went there without a lock.
THEOREM LockExcludes == LockSpec => []Exclusive
<1>1. LockSpec => []LockInv
  BY LockInvInit, LockInvStep, PTL DEF LockSpec
<1> QED
  BY <1>1, LockInvExcludes, PTL

(***************************************************************************)
(* The handles use it                                                      *)
(***************************************************************************)
LEMMA HandlesStep == [Next]_vars => [LockNext]_lockVars
<1> SUFFICES ASSUME Next
             PROVE  [LockNext]_lockVars
  BY DEF vars, lockVars
<1>1. PICK t \in Threads : BeginOperation(t) \/ DoStep(t)
  BY DEF Next
<1>2. CASE BeginOperation(t)
  BY <1>2 DEF BeginOperation, CopyCtor, CopyAssignment, MoveCtor, MoveAssignment, Dtor,
              ConvertProperty, ChainProperty, FillProperty, OpenDataset, Gateway,
              Begin, Guarded, lockVars
<1>3. CASE DoStep(t)
  BY <1>1, <1>3 DEF DoStep, LockStep, UnlockStep, Take, Drop, Abandon, EnterLibrary,
              ReturnClose, ReturnRetain, ReturnCreate, ReturnSet, ReturnDerive,
              ReturnDescribe, ReturnTransfer, CallFails, Returns, LockNext, lockVars
<1> QED
  BY <1>1, <1>2, <1>3

\* Every behaviour of the handles is one the lock allows for.
THEOREM HandlesUseLock == Spec => LockSpec
<1>1. Init => LockInit
  BY DEF Init
<1> QED
  BY <1>1, HandlesStep, PTL DEF Spec, LockSpec

\* The calls of the wrappers, the property expressions and the gateways
\* exclude one another; only h5::open and ~tprop_t, which take no lock, can
\* meet another call in the library.
THEOREM HandlesExclude == Spec => []Exclusive
BY HandlesUseLock, LockExcludes, PTL

(***************************************************************************)
(* The pipelines of the lists                                              *)
(***************************************************************************)
\* What is known of the library whatever the wrappers do.
LibraryInv ==
    /\ refs \in [Ids -> Nat]
    /\ pipe \in [Ids -> Ids \cup {None}]
    /\ pipelines \subseteq Ids /\ orphans \subseteq Ids
    /\ PipelinesOwned

\* H5I_UNINIT is no id.
LEMMA NoneIsNoId == None \notin Ids
BY DEF None, Ids

\* There are finitely many places an id can be at.
LEMMA PlacesFinite == IsFiniteSet(Places)
<1>1. IsFiniteSet(Variables)
  BY HandlesAssumption, FS_Union, FS_Product DEF Variables
<1>2. IsFiniteSet({"temp", "raw"}) /\ IsFiniteSet(Shared)
  <2>1. {"temp", "raw"} = ({} \cup {"temp"}) \cup {"raw"}
    OBVIOUS
  <2>2. Shared = ({} \cup {SharedList}) \cup {SharedDataset}
    BY DEF Shared
  <2>3. \A x, y : IsFiniteSet(({} \cup {x}) \cup {y})
    BY FS_EmptySet, FS_AddElement
  <2> QED
    BY <2>1, <2>2, <2>3
<1>3. IsFiniteSet(Threads \X {"temp", "raw"})
  BY <1>2, HandlesAssumption, FS_Product
<1> QED
  BY <1>1, <1>2, <1>3, FS_Union DEF Places

\* The ids a program starts with are open, with pipelines or without.
LEMMA LibraryInvInit == Init => LibraryInv
<1> SUFFICES ASSUME Init
             PROVE  LibraryInv
  OBVIOUS
<1> DEFINE at(i) == {p \in Places : held[p] = i}
<1>1. 1 \in Ids /\ 2 \in Ids
  BY HandlesAssumption DEF Ids
<1>2. refs = [i \in Ids |-> Cardinality(at(i))] /\ orphans = {}
  BY DEF Init
<1>p. PICK piped \in {{}, {1, 2}} :
         pipelines = piped /\ pipe = [i \in Ids |-> IF i \in piped THEN i ELSE None]
  BY DEF Init
<1>s. piped \subseteq {1, 2} /\ piped \subseteq Ids
  BY <1>1
<1>3. \A i \in Ids : IsFiniteSet(at(i)) /\ Cardinality(at(i)) \in Nat
  BY PlacesFinite, FS_Subset, FS_CardinalityType
<1>4. at(1) # {} /\ at(2) # {}
  <2>1. SharedList \in Places /\ SharedDataset \in Places /\ SharedList # SharedDataset
    BY DEF Places, Shared, SharedList, SharedDataset
  <2>2. SharedDataset[2] \notin Lists
    BY HandlesAssumption DEF SharedDataset
  <2>3. held[SharedList] = 1 /\ held[SharedDataset] = 2
    BY <2>1, <2>2 DEF Init
  <2> QED
    BY <2>1, <2>3
<1>5. refs[1] > 0 /\ refs[2] > 0
  <2>1. Cardinality(at(1)) # 0 /\ Cardinality(at(2)) # 0
    BY <1>1, <1>3, <1>4, FS_EmptySet
  <2>2. refs[1] = Cardinality(at(1)) /\ refs[2] = Cardinality(at(2))
    BY <1>1, <1>2
  <2> HIDE DEF at
  <2> QED
    BY <1>1, <1>3, <2>1, <2>2
<1>6. refs \in [Ids -> Nat]
  BY <1>2, <1>3
<1>7. /\ \A i \in Ids : pipe[i] = IF i \in piped THEN i ELSE None
      /\ pipe \in [Ids -> Ids \cup {None}]
  BY <1>p
<1>8. {pipe[i] : i \in Ids} \ {None} = piped
  <2>1. \A i \in Ids : pipe[i] # None => pipe[i] \in piped
    BY <1>7
  <2>2. \A i \in piped : i \in Ids /\ pipe[i] = i /\ i # None
    BY <1>s, <1>7, NoneIsNoId
  <2> QED
    BY <2>1, <2>2
<1>9. \A i \in Ids : pipe[i] # None => i \in {1, 2}
  BY <1>s, <1>7
<1>10. \A i, k \in Ids : pipe[i] # None /\ pipe[i] = pipe[k] => i = k
  BY <1>7, NoneIsNoId
<1> HIDE DEF at
<1>11. PipelinesOwned
  BY <1>2, <1>p, <1>5, <1>8, <1>9, <1>10 DEF PipelinesOwned
<1> QED
  BY <1>2, <1>p, <1>s, <1>6, <1>7, <1>11 DEF LibraryInv

\* A list gets a pipeline that was not in use.
LEMMA GiveKeeps ==
    ASSUME LibraryInv, NEW i \in Ids, pipe[i] = None, Unused # {},
           refs' \in [Ids -> Nat],
           \A k \in Ids : refs[k] > 0 => refs'[k] > 0,
           refs'[i] > 0,
           pipe' = [pipe EXCEPT ![i] = NewPipeline],
           pipelines' = pipelines \cup {NewPipeline}, orphans' = orphans
    PROVE  LibraryInv'
<1> DEFINE x == NewPipeline
<1>1. x \in Ids /\ x \notin pipelines /\ x # None
  BY NoneIsNoId DEF NewPipeline, Unused
<1> HIDE DEF x
<1>2. \A k \in Ids : pipe'[k] = IF k = i THEN x ELSE pipe[k]
  BY DEF LibraryInv, x
<1>3. pipelines' = pipelines \cup {x}
  BY DEF x
<1>4. \A k \in Ids : pipe[k] # x
  BY <1>1 DEF LibraryInv, PipelinesOwned
<1>5. pipe' \in [Ids -> Ids \cup {None}] /\ pipelines' \subseteq Ids
  BY <1>1, <1>3 DEF LibraryInv, x
<1>6. \A k \in Ids : pipe'[k] # None => refs'[k] > 0 /\ pipe'[k] \notin orphans'
  <2>1. x \notin orphans
    BY <1>1 DEF LibraryInv, PipelinesOwned
  <2> QED
    BY <1>2, <2>1 DEF LibraryInv, PipelinesOwned
<1>7. \A k, l \in Ids : pipe'[k] # None /\ pipe'[k] = pipe'[l] => k = l
  BY <1>2, <1>4 DEF LibraryInv, PipelinesOwned
<1>8. pipelines' = ({pipe'[k] : k \in Ids} \ {None}) \cup orphans'
  <2>1. pipelines = ({pipe[k] : k \in Ids} \ {None}) \cup orphans
    BY DEF LibraryInv, PipelinesOwned
  <2>2. {pipe'[k] : k \in Ids} \ {None} = ({pipe[k] : k \in Ids} \ {None}) \cup {x}
    BY <1>1, <1>2
  <2> QED
    BY <1>3, <2>1, <2>2
<1> QED
  BY <1>5, <1>6, <1>7, <1>8 DEF LibraryInv, PipelinesOwned

\* The last reference of an id goes, and the pipeline with it.
LEMMA CloseKeeps ==
    ASSUME LibraryInv, NEW i \in Ids, refs[i] > 0,
           refs' = [refs EXCEPT ![i] = @ - 1],
           pipelines' = IF refs[i] = 1 THEN pipelines \ {pipe[i]} ELSE pipelines,
           pipe' = IF refs[i] = 1 THEN [pipe EXCEPT ![i] = None] ELSE pipe,
           orphans' = orphans
    PROVE  LibraryInv'
<1>1. /\ refs \in [Ids -> Nat] /\ pipe \in [Ids -> Ids \cup {None}] /\ pipelines \subseteq Ids
      /\ orphans \subseteq Ids
      /\ \A k \in Ids : pipe[k] # None => refs[k] > 0 /\ pipe[k] \notin orphans
      /\ \A k, l \in Ids : pipe[k] # None /\ pipe[k] = pipe[l] => k = l
      /\ pipelines = ({pipe[k] : k \in Ids} \ {None}) \cup orphans
  BY DEF LibraryInv, PipelinesOwned
<1>2. refs' \in [Ids -> Nat] /\ \A k \in Ids : refs'[k] = IF k = i THEN refs[i] - 1 ELSE refs[k]
  BY <1>1
<1>3. CASE refs[i] = 1
  <2>1. \A k \in Ids : pipe'[k] = IF k = i THEN None ELSE pipe[k]
    BY <1>1, <1>3
  <2>2. pipe' \in [Ids -> Ids \cup {None}] /\ pipelines' = pipelines \ {pipe[i]}
    BY <1>1, <1>3
  <2>3. pipelines' = ({pipe'[k] : k \in Ids} \ {None}) \cup orphans
    <3>1. {pipe'[k] : k \in Ids} \ {None} = ({pipe[k] : k \in Ids} \ {None}) \ {pipe[i]}
      BY <1>1, <2>1
    <3>2. pipe[i] \notin orphans
      BY <1>1, NoneIsNoId
    <3> QED
      BY <1>1, <2>2, <3>1, <3>2
  <2> QED
    BY <1>1, <1>2, <2>1, <2>2, <2>3 DEF LibraryInv, PipelinesOwned
<1>4. CASE refs[i] # 1
  <2>1. refs'[i] > 0 /\ pipe' = pipe /\ pipelines' = pipelines
    BY <1>1, <1>2, <1>4
  <2> QED
    BY <1>1, <1>2, <2>1 DEF LibraryInv, PipelinesOwned
<1> QED
  BY <1>3, <1>4

\* Calls that only add references leave the pipelines where they are.
LEMMA GrowKeeps ==
    ASSUME LibraryInv, refs' \in [Ids -> Nat],
           \A k \in Ids : refs[k] > 0 => refs'[k] > 0,
           pipe' = pipe, pipelines' = pipelines, orphans' = orphans
    PROVE  LibraryInv'
BY DEF LibraryInv, PipelinesOwned

\* A pipeline whose insertion fails is nobody's.
LEMMA OrphanKeeps ==
    ASSUME LibraryInv, Orphan
    PROVE  LibraryInv'
<1> DEFINE x == NewPipeline
<1>1. x \in Ids /\ x \notin pipelines /\ pipelines' = pipelines \cup {x} /\ orphans' = orphans \cup {x}
  BY DEF Orphan, NewPipeline, Unused
<1>2. refs' = refs /\ pipe' = pipe
  BY DEF Orphan
<1> HIDE DEF x
<1>3. \A k \in Ids : pipe[k] # x
  BY <1>1, NoneIsNoId DEF LibraryInv, PipelinesOwned
<1> QED
  BY <1>1, <1>2, <1>3 DEF LibraryInv, PipelinesOwned

\* No call of the library, and no fault of one, lets a pipeline go astray.
LEMMA LibraryInvStep == LibraryInv /\ [Next]_vars => LibraryInv'
<1> SUFFICES ASSUME LibraryInv, [Next]_vars
             PROVE  LibraryInv'
  OBVIOUS
<1>t. refs \in [Ids -> Nat] /\ pipe \in [Ids -> Ids \cup {None}]
  BY DEF LibraryInv
<1>f. ASSUME Unknown # {}
      PROVE  /\ Fresh \in Ids /\ refs[Fresh] = 0 /\ pipe[Fresh] = None
             /\ [refs EXCEPT ![Fresh] = 1] \in [Ids -> Nat]
             /\ \A k \in Ids : refs[k] > 0 => [refs EXCEPT ![Fresh] = 1][k] > 0
             /\ [refs EXCEPT ![Fresh] = 1][Fresh] > 0
  <2>1. Fresh \in Ids /\ refs[Fresh] = 0
    BY <1>f DEF Fresh, Unknown
  <2>2. pipe[Fresh] = None
    BY <2>1 DEF LibraryInv, PipelinesOwned
  <2> QED
    BY <1>t, <2>1, <2>2
<1>1. ASSUME NEW t \in Threads, ReturnClose(t)
      PROVE  LibraryInv'
  <2> DEFINE i == held[Step(t).at]
  <2>1. CASE IsOpen(i)
    <3>1. /\ i \in Ids /\ refs[i] > 0
          /\ refs' = [refs EXCEPT ![i] = @ - 1]
          /\ pipelines' = IF refs[i] = 1 THEN pipelines \ {pipe[i]} ELSE pipelines
          /\ pipe' = IF refs[i] = 1 THEN [pipe EXCEPT ![i] = None] ELSE pipe
          /\ orphans' = orphans
      BY <1>1, <2>1 DEF ReturnClose, IsOpen
    <3> HIDE DEF i
    <3> QED
      BY <3>1, CloseKeeps
  <2>2. CASE ~IsOpen(i)
    <3>1. refs' = refs /\ pipelines' = pipelines /\ pipe' = pipe /\ orphans' = orphans
      BY <1>1, <2>2 DEF ReturnClose
    <3> QED
      BY <1>t, <3>1, GrowKeeps
  <2> QED
    BY <2>1, <2>2
<1>2. ASSUME NEW t \in Threads, ReturnRetain(t)
      PROVE  LibraryInv'
  <2> DEFINE i == held[Step(t).at]
  <2>1. /\ refs' = IF IsOpen(i) THEN [refs EXCEPT ![i] = @ + 1] ELSE refs
        /\ pipe' = pipe /\ pipelines' = pipelines /\ orphans' = orphans
    BY <1>2 DEF ReturnRetain
  <2>2. refs' \in [Ids -> Nat] /\ \A k \in Ids : refs[k] > 0 => refs'[k] > 0
    BY <1>t, <2>1 DEF IsOpen
  <2> QED
    BY <2>1, <2>2, GrowKeeps
<1>3. ASSUME NEW t \in Threads, ReturnCreate(t)
      PROVE  LibraryInv'
  <2>1. /\ Unknown # {} /\ refs' = [refs EXCEPT ![Fresh] = 1]
        /\ pipe' = pipe /\ pipelines' = pipelines /\ orphans' = orphans
    BY <1>3 DEF ReturnCreate
  <2> QED
    BY <1>f, <2>1, GrowKeeps
<1>4. ASSUME NEW t \in Threads, ReturnSet(t)
      PROVE  LibraryInv'
  <2> DEFINE i == held[Step(t).at]
             absent == IsOpen(i) /\ pipe[i] = None
  <2>1. /\ Unused # {} /\ refs' = refs /\ orphans' = orphans
        /\ pipe' = IF absent THEN [pipe EXCEPT ![i] = NewPipeline] ELSE pipe
        /\ pipelines' = IF absent THEN pipelines \cup {NewPipeline} ELSE pipelines
    BY <1>4 DEF ReturnSet
  <2>2. CASE absent
    <3>1. i \in Ids /\ pipe[i] = None /\ refs[i] > 0
      BY <2>2 DEF IsOpen
    <3>2. pipe' = [pipe EXCEPT ![i] = NewPipeline] /\ pipelines' = pipelines \cup {NewPipeline}
      BY <2>1, <2>2
    <3> HIDE DEF i, absent
    <3> QED
      BY <1>t, <2>1, <3>1, <3>2, GiveKeeps
  <2>3. CASE ~absent
    <3>1. pipe' = pipe /\ pipelines' = pipelines
      BY <2>1, <2>3
    <3> QED
      BY <1>t, <2>1, <3>1, GrowKeeps
  <2> QED
    BY <2>2, <2>3
<1>5. ASSUME NEW t \in Threads, ReturnDerive(t)
      PROVE  LibraryInv'
  <2> DEFINE source == held[Step(t).from]
             copied == IF pipe[source] = None THEN None ELSE NewPipeline
  <2>1. /\ Unknown # {} /\ Unused # {} /\ refs' = [refs EXCEPT ![Fresh] = 1]
        /\ orphans' = orphans
        /\ pipe' = [pipe EXCEPT ![Fresh] = copied]
        /\ pipelines' = pipelines \cup ({copied} \ {None})
    BY <1>5 DEF ReturnDerive, CopyCallback
  <2>2. CASE copied = None
    <3>1. pipe' = pipe
      BY <1>f, <1>t, <2>1, <2>2
    <3>2. pipelines' = pipelines
      BY <2>1, <2>2
    <3> QED
      BY <1>f, <2>1, <3>1, <3>2, GrowKeeps
  <2>3. CASE copied # None
    <3>1. copied = NewPipeline
      BY <2>3
    <3>2. pipelines' = pipelines \cup {NewPipeline} /\ pipe' = [pipe EXCEPT ![Fresh] = NewPipeline]
      BY <2>1, <2>3, <3>1
    <3> QED
      BY <1>f, <2>1, <3>2, GiveKeeps
  <2> QED
    BY <2>2, <2>3
<1>6. ASSUME NEW t \in Threads, ReturnDescribe(t)
      PROVE  LibraryInv'
  <2>1. /\ Unknown # {} /\ refs' = [refs EXCEPT ![Fresh] = 1]
        /\ pipe' = pipe /\ pipelines' = pipelines /\ orphans' = orphans
    BY <1>6 DEF ReturnDescribe
  <2> QED
    BY <1>f, <2>1, GrowKeeps
<1>7. ASSUME UNCHANGED library
      PROVE  LibraryInv'
  <2>1. refs' = refs /\ pipe' = pipe /\ pipelines' = pipelines /\ orphans' = orphans
    BY <1>7 DEF library
  <2> QED
    BY <1>t, <2>1, GrowKeeps
<1>8. ASSUME NEW t \in Threads, BeginOperation(t)
      PROVE  UNCHANGED library
  BY <1>8 DEF BeginOperation, CopyCtor, CopyAssignment, MoveCtor, MoveAssignment, Dtor,
              ConvertProperty, ChainProperty, FillProperty, OpenDataset, Gateway,
              Begin, Guarded
<1>9. ASSUME NEW t \in Threads,
             \/ LockStep(t) \/ UnlockStep(t) \/ Take(t) \/ Drop(t) \/ Abandon(t)
             \/ EnterLibrary(t) \/ ReturnTransfer(t)
      PROVE  UNCHANGED library
  BY <1>9 DEF LockStep, UnlockStep, Take, Drop, Abandon, EnterLibrary, ReturnTransfer
<1>10. ASSUME UNCHANGED vars
       PROVE  UNCHANGED library
  BY <1>10 DEF vars
<1>11. ASSUME NEW t \in Threads, CallFails(t)
       PROVE  UNCHANGED library \/ Orphan
  BY <1>11 DEF CallFails, SetFails
<1> QED
  BY <1>1, <1>2, <1>3, <1>4, <1>5, <1>6, <1>7, <1>8, <1>9, <1>10, <1>11, OrphanKeeps
     DEF Next, DoStep

\* A pipeline belongs to one list and is deleted with it, over any number of
\* copies, property expressions, opens and closes in any number of threads; no
\* failure leaves one behind but that of its insertion.
THEOREM HandlesOwnPipelines == Spec => []PipelinesOwned
<1>1. Spec => []LibraryInv
  BY LibraryInvInit, LibraryInvStep, PTL DEF Spec
<1>2. LibraryInv => PipelinesOwned
  BY DEF LibraryInv
<1> QED
  BY <1>1, <1>2, PTL

(***************************************************************************)
(* The references that places stand for                                    *)
(***************************************************************************)
\* The references of id i: one for each unit of the weight of each place that
\* holds the id, where h is what the places hold.
Claims(h, W, i) == {c \in Places \X (1 .. 3) : h[c[1]] = i /\ c[2] <= W[c[1]]}

\* Two functions on the places that agree but for p.
Apart(p, f, g) == \A q \in Places : q # p => f[q] = g[q]

\* A place stands for finitely many references.
LEMMA ClaimsFinite ==
    ASSUME NEW h, NEW W, NEW i
    PROVE  IsFiniteSet(Claims(h, W, i)) /\ Cardinality(Claims(h, W, i)) \in Nat
<1>1. IsFiniteSet(1 .. 3)
  <2>1. 1 \in Int /\ 3 \in Int
    OBVIOUS
  <2> QED
    BY <2>1, FS_Interval
<1>2. IsFiniteSet(Places \X (1 .. 3))
  BY <1>1, PlacesFinite, FS_Product
<1>3. Claims(h, W, i) \in SUBSET (Places \X (1 .. 3))
  BY DEF Claims
<1>4. IsFiniteSet(Claims(h, W, i))
  BY <1>2, <1>3, FS_Subset
<1> QED
  BY <1>4, FS_CardinalityType

\* A place that stands for nothing may hold and stand for nothing else.
LEMMA ClaimsLoose ==
    ASSUME NEW h, NEW g, NEW W \in Weights, NEW V \in Weights, NEW p \in Places,
           W[p] <= 0, V[p] <= 0, Apart(p, g, h), Apart(p, V, W), NEW i
    PROVE  Claims(g, V, i) = Claims(h, W, i)
<1>1. \A n \in 1 .. 3 : ~(n <= V[p]) /\ ~(n <= W[p])
  BY DEF Weights
<1> QED
  BY <1>1 DEF Claims, Apart

\* What stands for references of no id claims none.
LEMMA ClaimsVacant ==
    ASSUME NEW h \in [Places -> Ids \cup {None}], NEW W, NEW V,
           \A p \in Places : V[p] # W[p] => h[p] = None, NEW i \in Ids
    PROVE  Claims(h, V, i) = Claims(h, W, i)
<1>1. \A p \in Places : h[p] = i => V[p] = W[p]
  BY NoneIsNoId
<1> QED
  BY <1>1 DEF Claims

\* One reference more.
LEMMA ClaimsMore ==
    ASSUME NEW h, NEW W \in Weights, NEW V \in Weights, NEW p \in Places,
           W[p] \in 0 .. 2, V[p] = W[p] + 1, Apart(p, V, W), NEW i
    PROVE  Cardinality(Claims(h, V, i))
               = Cardinality(Claims(h, W, i)) + (IF h[p] = i THEN 1 ELSE 0)
<1> DEFINE c == <<p, W[p] + 1>>
<1>1. \A q \in Places : V[q] = IF q = p THEN W[p] + 1 ELSE W[q]
  BY DEF Apart
<1>2. c \in Places \X (1 .. 3) /\ c[1] = p /\ c[2] = W[p] + 1
  OBVIOUS
<1>3. c \notin Claims(h, W, i)
  BY <1>2 DEF Claims
<1>4. CASE h[p] = i
  <2>1. Claims(h, V, i) = Claims(h, W, i) \cup {c}
    <3>1. ASSUME NEW d \in Places \X (1 .. 3)
          PROVE  d \in Claims(h, V, i) <=> d \in Claims(h, W, i) \/ d = c
      <4>1. d[1] \in Places /\ d[2] \in 1 .. 3 /\ d = <<d[1], d[2]>>
        OBVIOUS
      <4>2. CASE d[1] = p
        <5>1. V[d[1]] = W[p] + 1 /\ h[d[1]] = i
          BY <1>1, <1>4, <4>2
        <5>2. d = c <=> d[2] = W[p] + 1
          BY <4>1, <4>2
        <5>3. d[2] <= W[p] + 1 <=> d[2] <= W[p] \/ d[2] = W[p] + 1
          BY <4>1
        <5> QED
          BY <4>2, <5>1, <5>2, <5>3 DEF Claims
      <4>3. CASE d[1] # p
        <5>1. V[d[1]] = W[d[1]] /\ d # c
          BY <1>1, <1>2, <4>1, <4>3
        <5> QED
          BY <5>1 DEF Claims
      <4> QED
        BY <4>2, <4>3
    <3> QED
      BY <1>2, <3>1 DEF Claims
  <2> HIDE DEF c
  <2>2. Cardinality(Claims(h, V, i)) = Cardinality(Claims(h, W, i)) + 1
    BY <1>3, <2>1, ClaimsFinite, FS_AddElement
  <2> QED
    BY <1>4, <2>2
<1>5. CASE h[p] # i
  <2>1. \A q \in Places : h[q] = i => V[q] = W[q]
    BY <1>1, <1>5
  <2>2. Claims(h, V, i) = Claims(h, W, i)
    BY <2>1 DEF Claims
  <2>3. Cardinality(Claims(h, V, i)) = Cardinality(Claims(h, W, i)) + 0
    BY <2>2, ClaimsFinite
  <2> QED
    BY <1>5, <2>3
<1> QED
  BY <1>4, <1>5

\* A place that stands for a reference of an id is one of its claims.
LEMMA ClaimsSome ==
    ASSUME NEW h, NEW W \in Weights, NEW p \in Places, W[p] > 0
    PROVE  Cardinality(Claims(h, W, h[p])) >= 1
<1>1. <<p, 1>> \in Claims(h, W, h[p])
  BY DEF Claims, Weights
<1>2. Claims(h, W, h[p]) # {}
  BY <1>1
<1>3. Cardinality(Claims(h, W, h[p])) # 0
  BY <1>2, ClaimsFinite, FS_EmptySet
<1>4. Cardinality(Claims(h, W, h[p])) \in Nat
  BY ClaimsFinite
<1>5. \A n \in Nat : n # 0 => n >= 1
  OBVIOUS
<1> QED
  BY <1>3, <1>4, <1>5

\* The handle goes to another place, with n of the references.
LEMMA ClaimsTaken ==
    ASSUME NEW h, NEW g, NEW W \in Weights, NEW V \in Weights,
           NEW p \in Places, NEW q \in Places, p # q,
           Apart(p, g, h), g[p] = h[q], \A x \in Places : x # p /\ x # q => V[x] = W[x],
           W[p] <= 0, NEW n \in 0 .. 1, n <= W[q], V[p] = n, V[q] = W[q] - n, NEW i
    PROVE  Cardinality(Claims(g, V, i)) = Cardinality(Claims(h, W, i))
<1> DEFINE U == [V EXCEPT ![p] = 0]
           L == [U EXCEPT ![q] = W[q]]
<1>1. /\ U \in Weights /\ U[p] = 0 /\ U[q] = V[q] /\ Apart(p, V, U)
      /\ L \in Weights /\ L[p] = 0 /\ L[q] = W[q] /\ Apart(q, L, U) /\ W[q] \in -1 .. 3
  BY DEF Weights, Apart
<1>2. Apart(p, L, W)
  BY DEF Weights, Apart
<1> HIDE DEF U, L
<1>3. Claims(g, L, i) = Claims(h, W, i)
  <2>1. L[p] <= 0
    BY <1>1
  <2> QED
    BY <1>1, <1>2, <2>1, ClaimsLoose
<1>4. g[q] = h[q]
  BY DEF Apart
<1>5. CASE n = 0
  <2>1. V[p] <= 0 /\ V[q] = W[q]
    BY <1>1, <1>5
  <2>2. Apart(p, V, W)
    BY <2>1 DEF Apart
  <2> QED
    BY <2>1, <2>2, ClaimsLoose
<1>6. CASE n = 1
  <2>1. U[q] \in 0 .. 2 /\ L[q] = U[q] + 1 /\ U[p] \in 0 .. 2 /\ V[p] = U[p] + 1
    BY <1>1, <1>6
  <2>2. Cardinality(Claims(g, L, i)) = Cardinality(Claims(g, U, i)) + (IF g[q] = i THEN 1 ELSE 0)
    BY <1>1, <2>1, ClaimsMore
  <2>3. Cardinality(Claims(g, V, i)) = Cardinality(Claims(g, U, i)) + (IF g[p] = i THEN 1 ELSE 0)
    BY <1>1, <2>1, ClaimsMore
  <2> QED
    BY <1>3, <1>4, <2>2, <2>3
<1> QED
  BY <1>5, <1>6

\* A new id is at the one place it is delivered to.
LEMMA ClaimsNew ==
    ASSUME NEW h, NEW g, NEW W \in Weights, NEW V \in Weights, NEW p \in Places,
           NEW f, \A q \in Places : h[q] # f, Apart(p, g, h), g[p] = f,
           W[p] = -1, V[p] = 1, Apart(p, V, W), NEW i
    PROVE  Cardinality(Claims(g, V, i)) = IF i = f THEN 1 ELSE Cardinality(Claims(h, W, i))
<1> DEFINE U == [W EXCEPT ![p] = 0]
<1>1. U \in Weights /\ U[p] = 0 /\ Apart(p, V, U) /\ Apart(p, U, W)
  BY DEF Weights, Apart
<1> HIDE DEF U
<1>2. Claims(g, U, i) = Claims(h, W, i)
  <2>1. U[p] <= 0 /\ W[p] <= 0
    BY <1>1
  <2> QED
    BY <1>1, <2>1, ClaimsLoose
<1>3. Cardinality(Claims(g, V, i)) = Cardinality(Claims(h, W, i)) + (IF f = i THEN 1 ELSE 0)
  <2>1. U[p] \in 0 .. 2 /\ V[p] = U[p] + 1
    BY <1>1
  <2> QED
    BY <1>1, <1>2, <2>1, ClaimsMore
<1>4. i = f => Cardinality(Claims(h, W, i)) = 0
  <2>1. Claims(h, W, f) = {}
    BY DEF Claims
  <2> QED
    BY <2>1, FS_EmptySet
<1>5. Cardinality(Claims(h, W, i)) \in Nat
  BY ClaimsFinite
<1> QED
  BY <1>3, <1>4, <1>5

\* An id is forgotten with the n references its place stood for.
LEMMA ClaimsForgotten ==
    ASSUME NEW h, NEW g, NEW W \in Weights, NEW V \in Weights, NEW p \in Places,
           NEW n \in 1 .. 2, W[p] = n, V[p] = -1, Apart(p, g, h), Apart(p, V, W), NEW i
    PROVE  Cardinality(Claims(h, W, i))
               = Cardinality(Claims(g, V, i)) + (IF h[p] = i THEN n ELSE 0)
<1> DEFINE U == [W EXCEPT ![p] = 0]
           L == [W EXCEPT ![p] = 1]
<1>1. /\ U \in Weights /\ U[p] = 0 /\ Apart(p, V, U) /\ Apart(p, L, U) /\ Apart(p, W, U)
      /\ L \in Weights /\ L[p] = 1 /\ Apart(p, W, L)
  BY DEF Weights, Apart
<1> HIDE DEF U, L
<1>2. Claims(g, V, i) = Claims(h, U, i)
  <2>1. U[p] <= 0 /\ V[p] <= 0
    BY <1>1
  <2> QED
    BY <1>1, <2>1, ClaimsLoose
<1>3. U[p] \in 0 .. 2 /\ L[p] = U[p] + 1
  BY <1>1
<1>4. Cardinality(Claims(h, U, i)) \in Nat
  BY ClaimsFinite
<1>5. CASE n = 1
  <2>1. W[p] = U[p] + 1
    BY <1>1, <1>5
  <2>2. Cardinality(Claims(h, W, i)) = Cardinality(Claims(h, U, i)) + (IF h[p] = i THEN 1 ELSE 0)
    BY <1>1, <1>3, <2>1, ClaimsMore
  <2> QED
    BY <1>2, <1>5, <2>2
<1>6. CASE n = 2
  <2>1. L[p] \in 0 .. 2 /\ W[p] = L[p] + 1
    BY <1>1, <1>6
  <2>2. Cardinality(Claims(h, W, i)) = Cardinality(Claims(h, L, i)) + (IF h[p] = i THEN 1 ELSE 0)
    BY <1>1, <2>1, ClaimsMore
  <2>3. Cardinality(Claims(h, L, i)) = Cardinality(Claims(h, U, i)) + (IF h[p] = i THEN 1 ELSE 0)
    BY <1>1, <1>3, ClaimsMore
  <2>4. CASE h[p] = i
    BY <1>2, <1>4, <1>6, <2>2, <2>3, <2>4
  <2>5. CASE h[p] # i
    BY <1>2, <1>4, <1>6, <2>2, <2>3, <2>5
  <2> QED
    BY <2>4, <2>5
<1> QED
  BY <1>5, <1>6

(***************************************************************************)
(* The inductive invariant                                                 *)
(***************************************************************************)
\* W is what the places stand for: the shared variables for one reference
\* each, and what holds no id may stand for none.
Weighted(W) ==
    /\ W \in Weights
    /\ \A p \in Shared : W[p] = 1
    /\ \A p \in Places : W[p] = -1 => held[p] = None

\* Every reference of an id is one that a place stands for, or is lost.
Balanced(W) == \A i \in Ids : refs[i] = Cardinality(Claims(held, W, i)) + strays[i]

\* Thread t is in account a.
Describes(t, a, W) ==
    /\ depth[t] = a.depth
    /\ \A p \in Reach(t) : W[p] = a.weight[p]
    /\ a.twin \in Reach(t) \X Reach(t) /\ held[a.twin[1]] = held[a.twin[2]]

\* From account a, what is left of the operation of t leads to an end of it,
\* and so does an exception of each call of it.
Sound(t, a) ==
    /\ todo[t].steps = <<>> => Idle(t)
    /\ \E X \in SUBSET Accounts, b \in Ends(t) :
          /\ Outline(t, a, todo[t].steps, b, X)
          /\ Handled(t, X, todo[t].within, todo[t].after)

\* The references are balanced, and every thread is in a sound account.
Accounted(W) ==
    /\ Weighted(W) /\ Balanced(W)
    /\ \A t \in Threads : \E a \in Accounts : Describes(t, a, W) /\ Sound(t, a)

Programs == [steps : Seq(Steps), within : Seq(Steps), after : Seq(Steps)]

HandlesType ==
    /\ held \in [Places -> Ids \cup {None}]
    /\ strays \in [Ids -> Nat]
    /\ todo \in [Threads -> Programs]
    /\ calls \in 0 .. MaxCalls /\ faults \in 0 .. MaxFaults

HandlesInv == LockInv /\ LibraryInv /\ HandlesType /\ \E W \in Weights : Accounted(W)

(***************************************************************************)
(* What the steps of a thread have in common                               *)
(***************************************************************************)
\* The kind of a step decides which move it is.
LEMMA MovesOfKind ==
    ASSUME NEW t, NEW a, NEW s, NEW b, Moves(t, a, s, b)
    PROVE  /\ s.do \in {"lock", "unlock"} => LockMoves(a, s, b)
           /\ s.do = "take" => TakeMoves(t, a, s, b)
           /\ s.do \in {"drop", "abandon"} => DropMoves(t, a, s, b)
           /\ s.do = "close" => CloseMoves(t, a, s, b)
           /\ s.do = "retain" => RetainMoves(t, a, s, b)
           /\ s.do \in {"create", "derive"} => OpenMoves(t, a, s, b)
           /\ s.do \in {"set", "describe", "transfer"} => UseMoves(t, a, s, b)
<1>1. LockMoves(a, s, b) => s.do \in {"lock", "unlock"}
  BY DEF LockMoves, Locking, Unlocking
<1>2. TakeMoves(t, a, s, b) => s.do = "take"
  BY DEF TakeMoves, Taking
<1>3. DropMoves(t, a, s, b) => s.do \in {"drop", "abandon"}
  BY DEF DropMoves, Dropping, Abandoning
<1>4. CloseMoves(t, a, s, b) => s.do = "close"
  BY DEF CloseMoves, Closing, Call
<1>5. RetainMoves(t, a, s, b) => s.do = "retain"
  BY DEF RetainMoves, Retaining, Call
<1>6. OpenMoves(t, a, s, b) => s.do \in {"create", "derive"}
  BY DEF OpenMoves, Call
<1>7. UseMoves(t, a, s, b) => s.do \in {"set", "describe", "transfer"}
  BY DEF UseMoves, Setting, Describing, Call
<1> QED
  BY <1>1, <1>2, <1>3, <1>4, <1>5, <1>6, <1>7 DEF Moves

\* The next step of a thread leads from its account to another; what is left
\* is sound from there, and a failed call is taken care of.
LEMMA StepSound ==
    ASSUME HandlesType, NEW t \in Threads, NEW a \in Accounts, Sound(t, a), ~Idle(t)
    PROVE  /\ Step(t) \in Steps
           /\ Fails(Step(t)) =>
                 \E e \in Ends(t) :
                    Outline(t, a, todo[t].within \o Unlocks(a.depth) \o todo[t].after, e, {})
           /\ \E m \in Accounts :
                 /\ Moves(t, a, Step(t), m)
                 /\ Advance(t) => Sound(t, m)' /\ todo' \in [Threads -> Programs]
<1> DEFINE r == todo[t]
<1>1. r \in Programs /\ r.steps # <<>> /\ r.steps \in Seq(Steps)
  BY DEF HandlesType, Sound, Programs
<1>2. PICK X \in SUBSET Accounts, b \in Ends(t) :
         Outline(t, a, r.steps, b, X) /\ Handled(t, X, r.within, r.after)
  BY DEF Sound
<1>3. /\ Step(t) \in Steps /\ (Fails(Step(t)) => a \in X)
      /\ \E m \in Accounts : Moves(t, a, Step(t), m) /\ Outline(t, m, Tail(r.steps), b, X)
  BY <1>1, <1>2, OutlineFirst DEF Step
<1>4. PICK m \in Accounts : Moves(t, a, Step(t), m) /\ Outline(t, m, Tail(r.steps), b, X)
  BY <1>3
<1>5. ASSUME Advance(t)
      PROVE  Sound(t, m)' /\ todo' \in [Threads -> Programs]
  <2> DEFINE next == [r EXCEPT !.steps = Tail(r.steps)]
  <2>1. /\ Tail(r.steps) \in Seq(Steps) /\ Len(r.steps) \in Nat
        /\ Len(Tail(r.steps)) = Len(r.steps) - 1
    BY <1>1
  <2>2. /\ next \in Programs /\ next.steps = Tail(r.steps)
        /\ next.within = r.within /\ next.after = r.after
    BY <1>1, <2>1 DEF Programs
  <2>3. Nothing \in Programs /\ Nothing.steps = <<>> /\ Nothing.within = <<>> /\ Nothing.after = <<>>
    BY DEF Nothing, Programs
  <2>4. todo' = [todo EXCEPT ![t] = IF Len(r.steps) = 1 THEN Nothing ELSE next]
    BY <1>5, Zenon DEF Advance
  <2> HIDE DEF next
  <2>5. CASE Len(r.steps) = 1
    <3>1. todo' \in [Threads -> Programs] /\ todo'[t] = Nothing
      BY <2>3, <2>4, <2>5 DEF HandlesType
    <3>2. Tail(r.steps) = <<>>
      <4>1. Len(Tail(r.steps)) = 0
        BY <2>1, <2>5
      <4> QED
        BY <2>1, <4>1, EmptySeq
    <3>3. Outline(t, m, <<>>, b, {})
      <4>1. Outline(t, m, <<>>, b, X)
        BY <1>4, <3>2
      <4> QED
        BY <4>1, OutlineNone
    <3>4. Handled(t, {}, <<>>, <<>>) /\ {} \in SUBSET Accounts
      BY DEF Handled
    <3>5. Sound(t, m)'
      BY <2>3, <3>1, <3>3, <3>4 DEF Sound, Idle
    <3> QED
      BY <3>1, <3>5
  <2>6. CASE Len(r.steps) # 1
    <3>1. todo' \in [Threads -> Programs] /\ todo'[t] = next
      BY <2>2, <2>4, <2>6 DEF HandlesType
    <3>2. Tail(r.steps) # <<>>
      <4>1. Len(r.steps) # 0
        BY <1>1, EmptySeq
      <4>2. Len(Tail(r.steps)) # 0
        BY <2>1, <2>6, <4>1
      <4> QED
        BY <4>2, EmptySeq
    <3>3. Sound(t, m)'
      BY <1>2, <1>4, <2>2, <3>1, <3>2 DEF Sound
    <3> QED
      BY <3>1, <3>3
  <2> QED
    BY <2>5, <2>6
<1>6. Fails(Step(t)) =>
          \E e \in Ends(t) : Outline(t, a, r.within \o Unlocks(a.depth) \o r.after, e, {})
  BY <1>2, <1>3 DEF Handled
<1> QED
  BY <1>3, <1>4, <1>5, <1>6

\* What thread t does at its own places is none of the others' business.
LEMMA OthersKeep ==
    ASSUME HandlesType, NEW W, NEW V, NEW t \in Threads, NEW u \in Threads, u # t,
           NEW a \in Accounts, Describes(u, a, W), Sound(u, a),
           depth'[u] = depth[u], todo'[u] = todo[u],
           \A p \in Places \ Mine(t) : held'[p] = held[p] /\ V[p] = W[p]
    PROVE  Describes(u, a, V)' /\ Sound(u, a)'
<1>1. Reach(u) \subseteq Places /\ Reach(u) \cap Mine(t) = {}
  <2>1. Mine(u) \cap Mine(t) = {}
    BY DEF Mine
  <2> QED
    BY <2>1, ReachInPlaces DEF Reach
<1>2. \A p \in Reach(u) : held'[p] = held[p] /\ V[p] = W[p]
  BY <1>1
<1>3. a.twin \in Reach(u) \X Reach(u)
  BY DEF Describes
<1>4. a.twin[1] \in Reach(u) /\ a.twin[2] \in Reach(u)
  BY <1>3
<1>5. Describes(u, a, V)'
  BY <1>2, <1>3, <1>4 DEF Describes
<1>6. Sound(u, a)'
  BY DEF Sound, Idle
<1> QED
  BY <1>5, <1>6

\* A step of t keeps the counts when it leaves t in an account again, with
\* the references balanced.
LEMMA AccountedStep ==
    ASSUME HandlesType, NEW W, Accounted(W), NEW V, NEW t \in Threads, NEW m \in Accounts,
           Weighted(V)', Balanced(V)', Describes(t, m, V)', Sound(t, m)',
           \A u \in Threads : u # t => depth'[u] = depth[u] /\ todo'[u] = todo[u],
           \A p \in Places \ Mine(t) : held'[p] = held[p] /\ V[p] = W[p]
    PROVE  (\E Z \in Weights : Accounted(Z))'
<1>1. ASSUME NEW u \in Threads
      PROVE  \E a \in Accounts : Describes(u, a, V)' /\ Sound(u, a)'
  <2>1. CASE u = t
    BY <2>1
  <2>2. CASE u # t
    <3>1. PICK a \in Accounts : Describes(u, a, W) /\ Sound(u, a)
      BY DEF Accounted
    <3>2. depth'[u] = depth[u] /\ todo'[u] = todo[u]
      BY <2>2
    <3>3. Describes(u, a, V)' /\ Sound(u, a)'
      BY <2>2, <3>1, <3>2, OthersKeep
    <3> QED
      BY <3>3
  <2> QED
    BY <2>1, <2>2
<1>2. V \in Weights
  BY DEF Weighted
<1>3. Accounted(V)'
  BY <1>1 DEF Accounted
<1> QED
  BY <1>2, <1>3

\* A busy thread, the account it is in and the one its step leads to.
LEMMA Current ==
    ASSUME HandlesType, NEW W, Accounted(W), NEW t \in Threads, Busy(t)
    PROVE  \E a, m \in Accounts :
              /\ Describes(t, a, W) /\ Sound(t, a) /\ Moves(t, a, Step(t), m)
              /\ Advance(t) => /\ Sound(t, m)' /\ todo' \in [Threads -> Programs]
                               /\ \A u \in Threads : u # t => todo'[u] = todo[u]
<1>1. PICK a \in Accounts : Describes(t, a, W) /\ Sound(t, a)
  BY DEF Accounted
<1>2. PICK m \in Accounts :
         Moves(t, a, Step(t), m) /\ (Advance(t) => Sound(t, m)' /\ todo' \in [Threads -> Programs])
  BY <1>1, StepSound DEF Busy
<1>3. Advance(t) => \A u \in Threads : u # t => todo'[u] = todo[u]
  BY DEF Advance, HandlesType
<1> QED
  BY <1>1, <1>2, <1>3

(***************************************************************************)
(* Steps of the wrappers                                                   *)
(***************************************************************************)
\* std::unique_lock comes or goes: the depth changes and nothing else.
LEMMA LockStepKeeps ==
    ASSUME LockInv, HandlesType, NEW W, Accounted(W), NEW t \in Threads,
           LockStep(t) \/ UnlockStep(t)
    PROVE  HandlesType' /\ (\E Z \in Weights : Accounted(Z))'
<1>1. Busy(t) /\ Advance(t) /\ UNCHANGED <<held, library, strays, calls, faults>>
  BY DEF LockStep, UnlockStep, Ready
<1>2. PICK a, m \in Accounts :
         /\ Describes(t, a, W) /\ Sound(t, a) /\ Moves(t, a, Step(t), m)
         /\ Sound(t, m)' /\ todo' \in [Threads -> Programs]
         /\ \A u \in Threads : u # t => todo'[u] = todo[u]
  BY <1>1, Current
<1>3. depth \in [Threads -> Nat]
  BY DEF LockInv, LockTypeOK
<1>4. /\ depth'[t] = m.depth /\ m.weight = a.weight /\ m.twin = a.twin
      /\ \A u \in Threads : u # t => depth'[u] = depth[u]
  <2>1. a.depth = depth[t]
    BY <1>2 DEF Describes
  <2>2. CASE LockStep(t)
    <3>1. Step(t).do = "lock" /\ depth' = [depth EXCEPT ![t] = @ + 1]
      BY <2>2 DEF LockStep, Lock, Ready
    <3>2. m = Account(a.depth + 1, a.weight, a.twin)
      BY <1>2, <3>1, MovesOfKind DEF LockMoves, Locking, Unlocking
    <3> QED
      BY <1>3, <2>1, <3>1, <3>2 DEF Account
  <2>3. CASE UnlockStep(t)
    <3>1. Step(t).do = "unlock" /\ depth' = [depth EXCEPT ![t] = @ - 1]
      BY <2>3 DEF UnlockStep, Unlock, Ready
    <3>2. m = Account(a.depth - 1, a.weight, a.twin)
      BY <1>2, <3>1, MovesOfKind DEF LockMoves, Locking, Unlocking
    <3> QED
      BY <1>3, <2>1, <3>1, <3>2 DEF Account
  <2> QED
    BY <2>2, <2>3
<1>5. held' = held /\ refs' = refs /\ strays' = strays /\ calls' = calls /\ faults' = faults
  BY <1>1 DEF library
<1>6. Weighted(W)' /\ Balanced(W)'
  BY <1>5 DEF Accounted, Weighted, Balanced
<1>7. Describes(t, m, W)'
  BY <1>2, <1>4, <1>5 DEF Describes
<1>8. HandlesType'
  BY <1>2, <1>5 DEF HandlesType
<1>9. \A p \in Places \ Mine(t) : held'[p] = held[p] /\ W[p] = W[p]
  BY <1>5
<1> QED
  BY <1>2, <1>4, <1>6, <1>7, <1>8, <1>9, AccountedStep

\* p.handle = q.handle: the reference goes with it, or the copy has none yet.
LEMMA TakeKeeps ==
    ASSUME HandlesType, NEW W, Accounted(W), NEW t \in Threads, Take(t)
    PROVE  HandlesType' /\ (\E Z \in Weights : Accounted(Z))'
<1>1. /\ Busy(t) /\ Advance(t) /\ Step(t).do = "take"
      /\ held' = [held EXCEPT ![Step(t).at] = held[Step(t).from]]
      /\ depth' = depth /\ refs' = refs /\ strays' = strays /\ calls' = calls /\ faults' = faults
  BY DEF Take, Ready, library, lockVars
<1>2. PICK a, m \in Accounts :
         /\ Describes(t, a, W) /\ Sound(t, a) /\ Moves(t, a, Step(t), m)
         /\ Sound(t, m)' /\ todo' \in [Threads -> Programs]
         /\ \A u \in Threads : u # t => todo'[u] = todo[u]
  BY <1>1, Current
<1>3. TakeMoves(t, a, Step(t), m)
  BY <1>1, <1>2, MovesOfKind
<1>4. PICK p \in Mine(t), q \in Reach(t), n \in 0 .. 1 :
         /\ Step(t) = Taking(p, q) /\ p # q
         /\ a.weight[p] <= 0 /\ n <= a.weight[q] /\ (q \in Shared => n = 0)
         /\ m = Account(a.depth, [[a.weight EXCEPT ![p] = n] EXCEPT ![q] = a.weight[q] - n], <<p, q>>)
  BY <1>3 DEF TakeMoves
<1>5. /\ p \in Places /\ q \in Places /\ p \notin Shared /\ Mine(t) \subseteq Reach(t)
      /\ Reach(t) \subseteq Places /\ (q \notin Shared => q \in Mine(t))
  BY ReachInPlaces DEF Reach
<1>6. /\ held \in [Places -> Ids \cup {None}] /\ W \in Weights /\ a.weight \in Weights
      /\ \A x \in Reach(t) : W[x] = a.weight[x]
      /\ \A x \in Shared : W[x] = 1
      /\ \A x \in Places : W[x] = -1 => held[x] = None
      /\ depth[t] = a.depth
  BY <1>2, AccountParts DEF HandlesType, Accounted, Weighted, Describes
<1> DEFINE V == [[W EXCEPT ![p] = n] EXCEPT ![q] = W[q] - n]
<1>7. /\ W[p] <= 0 /\ n <= W[q] /\ W[q] \in 0 .. 3
      /\ V \in Weights /\ V[p] = n /\ V[q] = W[q] - n
      /\ \A x \in Places : x # p /\ x # q => V[x] = W[x]
  <2>1. W[p] <= 0 /\ n <= W[q] /\ W[q] \in -1 .. 3 /\ W[q] \in 0 .. 3
    BY <1>4, <1>5, <1>6 DEF Weights
  <2> QED
    BY <1>4, <1>5, <1>6, <2>1 DEF Weights
<1>8. /\ \A x \in Places : held'[x] = IF x = p THEN held[q] ELSE held[x]
      /\ held' \in [Places -> Ids \cup {None}]
  <2>1. Step(t).at = p /\ Step(t).from = q
    BY <1>4 DEF Taking
  <2> QED
    BY <1>1, <1>5, <1>6, <2>1
<1>9. \A x \in Reach(t) : m.weight[x] = V[x]
  <2>1. m.weight = [[a.weight EXCEPT ![p] = n] EXCEPT ![q] = a.weight[q] - n]
    BY <1>4 DEF Account
  <2> QED
    BY <1>4, <1>5, <1>6, <2>1 DEF Weights
<1>10. m.depth = a.depth /\ m.twin = <<p, q>>
  BY <1>4 DEF Account
<1> HIDE DEF V
<1>11. Weighted(V)'
  <2>1. \A x \in Shared : V[x] = 1
    <3>1. \A x \in Shared : x \in Places /\ x # p
      BY <1>5, ReachInPlaces
    <3>2. q \in Shared => V[q] = 1
      BY <1>4, <1>6, <1>7
    <3> QED
      BY <1>6, <1>7, <3>1, <3>2
  <2>2. \A x \in Places : V[x] = -1 => held'[x] = None
    <3>1. V[p] # -1 /\ V[q] # -1
      BY <1>7
    <3> QED
      BY <1>6, <1>7, <1>8, <3>1
  <2> QED
    BY <1>7, <2>1, <2>2 DEF Weighted
<1>12. Balanced(V)'
  <2>1. Apart(p, held', held) /\ held'[p] = held[q]
    BY <1>5, <1>8 DEF Apart
  <2>2. \A i \in Ids : Cardinality(Claims(held', V, i)) = Cardinality(Claims(held, W, i))
    <3>1. p \in Places /\ q \in Places /\ p # q /\ W \in Weights
      BY <1>4, <1>5, <1>6
    <3> QED
      BY <1>7, <2>1, <3>1, ClaimsTaken
  <2> QED
    BY <1>1, <2>2 DEF Accounted, Balanced
<1>13. Describes(t, m, V)'
  <2>1. <<p, q>> \in Reach(t) \X Reach(t) /\ held'[p] = held'[q]
    BY <1>4, <1>5, <1>8
  <2> QED
    BY <1>1, <1>6, <1>9, <1>10, <2>1 DEF Describes
<1>14. HandlesType'
  BY <1>1, <1>2, <1>8 DEF HandlesType
<1>15. \A x \in Places \ Mine(t) : held'[x] = held[x] /\ V[x] = W[x]
  <2>1. ASSUME NEW x \in Places \ Mine(t)
        PROVE  held'[x] = held[x] /\ V[x] = W[x]
    <3>1. x # p
      BY <1>4
    <3>2. x = q => V[x] = W[x]
      BY <1>4, <1>5, <1>7
    <3> QED
      BY <1>7, <1>8, <3>1, <3>2
  <2> QED
    BY <2>1
<1> QED
  BY <1>1, <1>2, <1>11, <1>12, <1>13, <1>14, <1>15, AccountedStep

\* p.handle = H5I_UNINIT, or a raw hid_t goes out of scope: what the place
\* stood for is nothing, or lost.
LEMMA DropKeeps ==
    ASSUME HandlesType, NEW W, Accounted(W), NEW t \in Threads, Drop(t) \/ Abandon(t)
    PROVE  HandlesType' /\ (\E Z \in Weights : Accounted(Z))'
<1>1. /\ Busy(t) /\ Advance(t) /\ Step(t).do \in {"drop", "abandon"}
      /\ held' = [held EXCEPT ![Step(t).at] = None]
      /\ depth' = depth /\ refs' = refs /\ calls' = calls /\ faults' = faults
  BY DEF Drop, Abandon, Ready, library, lockVars
<1>2. PICK a, m \in Accounts :
         /\ Describes(t, a, W) /\ Sound(t, a) /\ Moves(t, a, Step(t), m)
         /\ Sound(t, m)' /\ todo' \in [Threads -> Programs]
         /\ \A u \in Threads : u # t => todo'[u] = todo[u]
  BY <1>1, Current
<1>3. DropMoves(t, a, Step(t), m)
  BY <1>1, <1>2, MovesOfKind
<1>4. PICK p \in Mine(t) :
         /\ m = Account(a.depth, [a.weight EXCEPT ![p] = -1], NoTwin)
         /\ \/ Step(t) = Dropping(p) /\ a.weight[p] <= 0
            \/ \E n \in 1 .. 2 : Step(t) = Abandoning(p, n) /\ a.weight[p] \in {n, -1}
  BY <1>3 DEF DropMoves
<1>5. /\ p \in Places /\ p \notin Shared /\ p \in Reach(t) /\ Reach(t) \subseteq Places
      /\ Shared \subseteq Reach(t)
  BY ReachInPlaces DEF Reach
<1>6. /\ held \in [Places -> Ids \cup {None}] /\ W \in Weights /\ a.weight \in Weights
      /\ \A x \in Reach(t) : W[x] = a.weight[x]
      /\ \A x \in Shared : W[x] = 1
      /\ \A x \in Places : W[x] = -1 => held[x] = None
      /\ depth[t] = a.depth /\ strays \in [Ids -> Nat]
  BY <1>2, AccountParts DEF HandlesType, Accounted, Weighted, Describes
<1> DEFINE V == [W EXCEPT ![p] = -1]
<1>7. V \in Weights /\ V[p] = -1 /\ Apart(p, V, W)
  BY <1>5, <1>6 DEF Weights, Apart
<1>8. held'[p] = None /\ Apart(p, held', held) /\ held' \in [Places -> Ids \cup {None}]
  <2>1. Step(t).at = p
    BY <1>4 DEF Dropping, Abandoning
  <2> QED
    BY <1>1, <1>5, <1>6, <2>1 DEF Apart
<1>9. m.depth = a.depth /\ m.twin = NoTwin /\ \A x \in Reach(t) : m.weight[x] = V[x]
  BY <1>4, <1>5, <1>6 DEF Account, Weights
<1> HIDE DEF V
<1>10. Weighted(V)'
  BY <1>5, <1>6, <1>7, <1>8 DEF Weighted, Apart
<1>11. strays' \in [Ids -> Nat] /\ Balanced(V)'
  <2>1. V[p] <= 0
    BY <1>7
  <2>2. CASE W[p] <= 0 /\ strays' = strays
    <3>1. \A i \in Ids : Claims(held', V, i) = Claims(held, W, i)
      BY <1>5, <1>6, <1>7, <1>8, <2>1, <2>2, ClaimsLoose
    <3> QED
      BY <1>1, <1>6, <2>2, <3>1 DEF Accounted, Balanced
  <2>3. ASSUME NEW n \in 1 .. 2, Step(t) = Abandoning(p, n), W[p] = n
        PROVE  strays' \in [Ids -> Nat] /\ Balanced(V)'
    <3>1. strays' = [i \in Ids |-> strays[i] + (IF i = held[p] THEN n ELSE 0)]
      BY <1>1, <2>3 DEF Drop, Abandon, Ready, Abandoning, Dropping
    <3>2. \A i \in Ids : Cardinality(Claims(held, W, i))
                             = Cardinality(Claims(held', V, i)) + (IF held[p] = i THEN n ELSE 0)
      BY <1>5, <1>6, <1>7, <1>8, <2>3, ClaimsForgotten
    <3>3. ASSUME NEW i \in Ids
          PROVE  refs'[i] = Cardinality(Claims(held', V, i)) + strays'[i]
      <4>1. /\ refs[i] = Cardinality(Claims(held, W, i)) + strays[i] /\ strays[i] \in Nat
            /\ Cardinality(Claims(held', V, i)) \in Nat
        BY <1>6, ClaimsFinite DEF Accounted, Balanced
      <4>2. CASE held[p] = i
        <5>1. strays'[i] = strays[i] + n
          BY <3>1, <4>2
        <5>2. Cardinality(Claims(held, W, i)) = Cardinality(Claims(held', V, i)) + n
          BY <3>2, <4>2
        <5> QED
          BY <1>1, <4>1, <5>1, <5>2
      <4>3. CASE held[p] # i
        <5>1. strays'[i] = strays[i]
          BY <1>6, <3>1, <4>3
        <5>2. Cardinality(Claims(held, W, i)) = Cardinality(Claims(held', V, i))
          BY <3>2, <4>1, <4>3
        <5> QED
          BY <1>1, <4>1, <5>1, <5>2
      <4> QED
        BY <4>2, <4>3
    <3>4. strays' \in [Ids -> Nat]
      BY <1>6, <3>1
    <3> QED
      BY <3>3, <3>4 DEF Balanced
  <2>4. CASE Step(t) = Dropping(p) /\ a.weight[p] <= 0
    <3>1. strays' = strays
      BY <1>1, <2>4 DEF Drop, Abandon, Ready, Dropping
    <3> QED
      BY <1>5, <1>6, <2>2, <2>4, <3>1
  <2>5. ASSUME NEW n \in 1 .. 2, Step(t) = Abandoning(p, n), a.weight[p] \in {n, -1}
        PROVE  strays' \in [Ids -> Nat] /\ Balanced(V)'
    <3>1. CASE W[p] = n
      BY <2>3, <2>5, <3>1
    <3>2. CASE W[p] = -1
      <4>1. held[p] = None
        BY <1>5, <1>6, <3>2
      <4>2. strays' = [i \in Ids |-> strays[i] + (IF i = held[p] THEN n ELSE 0)]
        BY <1>1, <2>5 DEF Drop, Abandon, Ready, Abandoning, Dropping
      <4>3. \A i \in Ids : strays[i] + (IF i = held[p] THEN n ELSE 0) = strays[i]
        BY <1>6, <4>1, NoneIsNoId
      <4>4. strays' = strays
        BY <1>6, <4>2, <4>3
      <4> QED
        BY <2>2, <3>2, <4>4
    <3> QED
      BY <1>5, <1>6, <2>5, <3>1, <3>2
  <2> QED
    BY <1>4, <2>4, <2>5
<1>12. Describes(t, m, V)'
  <2>1. NoTwin \in Reach(t) \X Reach(t) /\ NoTwin[1] = NoTwin[2]
    BY <1>5 DEF NoTwin, Shared
  <2> QED
    BY <1>1, <1>6, <1>9, <2>1 DEF Describes
<1>13. HandlesType'
  BY <1>1, <1>2, <1>8, <1>11 DEF HandlesType
<1>14. \A x \in Places \ Mine(t) : held'[x] = held[x] /\ V[x] = W[x]
  BY <1>4, <1>7, <1>8 DEF Apart
<1> QED
  BY <1>1, <1>2, <1>10, <1>11, <1>12, <1>13, <1>14, AccountedStep

\* A call begins: nothing is done yet.
LEMMA EnterKeeps ==
    ASSUME HandlesType, NEW W, Accounted(W), NEW t \in Threads, EnterLibrary(t)
    PROVE  HandlesType' /\ (\E Z \in Weights : Accounted(Z))'
<1>1. /\ held' = held /\ refs' = refs /\ strays' = strays /\ todo' = todo
      /\ calls' = calls /\ faults' = faults /\ depth' = depth
  BY DEF EnterLibrary, Enter, library
<1>2. PICK a \in Accounts : Describes(t, a, W) /\ Sound(t, a)
  BY DEF Accounted
<1>3. Describes(t, a, W)' /\ Sound(t, a)' /\ Weighted(W)' /\ Balanced(W)'
  BY <1>1, <1>2 DEF Describes, Sound, Idle, Weighted, Balanced, Accounted
<1>4. HandlesType'
  BY <1>1 DEF HandlesType
<1>5. \A p \in Places \ Mine(t) : held'[p] = held[p] /\ W[p] = W[p]
  BY <1>1
<1> QED
  BY <1>1, <1>3, <1>4, <1>5, AccountedStep

(***************************************************************************)
(* Calls of the library return                                             *)
(***************************************************************************)
\* What every return has in common.
LEMMA ReturnParts ==
    ASSUME HandlesType, NEW W, Accounted(W), NEW t \in Threads, Busy(t), Returns(t)
    PROVE  /\ depth' = depth /\ calls' = calls /\ faults' = faults
           /\ \E a, m \in Accounts :
                 /\ Describes(t, a, W) /\ Sound(t, a) /\ Moves(t, a, Step(t), m)
                 /\ Sound(t, m)' /\ todo' \in [Threads -> Programs]
                 /\ \A u \in Threads : u # t => todo'[u] = todo[u]
<1>1. depth' = depth /\ calls' = calls /\ faults' = faults /\ Advance(t)
  BY DEF Returns, Leave
<1> QED
  BY <1>1, Current

\* A place that stands for a reference holds an id that is open.
LEMMA BackedIsOpen ==
    ASSUME HandlesType, NEW W, Accounted(W), NEW p \in Places, W[p] > 0, held[p] # None
    PROVE  IsOpen(held[p])
<1>1. held[p] \in Ids /\ W \in Weights /\ strays[held[p]] \in Nat
  BY DEF HandlesType, Accounted, Weighted
<1>2. /\ Cardinality(Claims(held, W, held[p])) >= 1
      /\ Cardinality(Claims(held, W, held[p])) \in Nat
  BY <1>1, ClaimsSome, ClaimsFinite
<1>3. refs[held[p]] = Cardinality(Claims(held, W, held[p])) + strays[held[p]]
  BY <1>1 DEF Accounted, Balanced
<1> QED
  BY <1>1, <1>2, <1>3 DEF IsOpen

\* One reference more or less behind p, whose id is held by nobody else's
\* leave: the counts and the account change together.
LEMMA CountKeeps ==
    ASSUME LibraryInv, HandlesType, NEW W, Accounted(W), NEW t \in Threads,
           NEW p \in Mine(t), NEW V \in Weights, Apart(p, V, W), V[p] # -1 \/ W[p] = -1,
           held' = held, strays' = strays,
           \/ /\ W[p] \in 0 .. 2 /\ V[p] = W[p] + 1
              /\ refs' = IF held[p] # None THEN [refs EXCEPT ![held[p]] = @ + 1] ELSE refs
           \/ /\ W[p] \in 1 .. 3 /\ V[p] = W[p] - 1
              /\ refs' = IF held[p] # None THEN [refs EXCEPT ![held[p]] = @ - 1] ELSE refs
           \/ held[p] = None /\ refs' = refs
    PROVE  Weighted(V)' /\ Balanced(V)'
<1>1. /\ held \in [Places -> Ids \cup {None}] /\ strays \in [Ids -> Nat]
      /\ refs \in [Ids -> Nat] /\ W \in Weights
      /\ \A x \in Shared : W[x] = 1
      /\ \A x \in Places : W[x] = -1 => held[x] = None
      /\ \A i \in Ids : refs[i] = Cardinality(Claims(held, W, i)) + strays[i]
  BY DEF HandlesType, Accounted, Weighted, Balanced, LibraryInv
<1>2. p \in Places /\ p \notin Shared /\ Shared \subseteq Places
  BY ReachInPlaces
<1>3. Weighted(V)'
  BY <1>1, <1>2 DEF Weighted, Apart
<1>4. Apart(p, W, V)
  BY DEF Apart
<1>5. ASSUME NEW i \in Ids
      PROVE  refs'[i] = Cardinality(Claims(held, V, i)) + strays[i]
  <2>1. /\ Cardinality(Claims(held, V, i)) \in Nat /\ Cardinality(Claims(held, W, i)) \in Nat
        /\ refs[i] = Cardinality(Claims(held, W, i)) + strays[i] /\ strays[i] \in Nat
    BY <1>1, ClaimsFinite
  <2>2. CASE /\ W[p] \in 0 .. 2 /\ V[p] = W[p] + 1
             /\ refs' = IF held[p] # None THEN [refs EXCEPT ![held[p]] = @ + 1] ELSE refs
    <3>1. Cardinality(Claims(held, V, i))
              = Cardinality(Claims(held, W, i)) + (IF held[p] = i THEN 1 ELSE 0)
      BY <1>1, <1>2, <2>2, ClaimsMore
    <3>2. refs'[i] = refs[i] + (IF held[p] = i THEN 1 ELSE 0)
      BY <1>1, <1>2, <2>2, NoneIsNoId
    <3> QED
      BY <2>1, <3>1, <3>2
  <2>3. CASE /\ W[p] \in 1 .. 3 /\ V[p] = W[p] - 1
             /\ refs' = IF held[p] # None THEN [refs EXCEPT ![held[p]] = @ - 1] ELSE refs
    <3>1. V[p] \in 0 .. 2 /\ W[p] = V[p] + 1
      BY <2>3
    <3>2. Cardinality(Claims(held, W, i))
              = Cardinality(Claims(held, V, i)) + (IF held[p] = i THEN 1 ELSE 0)
      BY <1>1, <1>2, <1>4, <3>1, ClaimsMore
    <3>3. refs'[i] = refs[i] - (IF held[p] = i THEN 1 ELSE 0)
      BY <1>1, <1>2, <2>3, NoneIsNoId
    <3> QED
      BY <2>1, <3>2, <3>3
  <2>4. CASE held[p] = None /\ refs' = refs
    <3>1. \A x \in Places : V[x] # W[x] => held[x] = None
      BY <2>4 DEF Apart
    <3>2. Claims(held, V, i) = Claims(held, W, i)
      BY <1>1, <3>1, ClaimsVacant
    <3> QED
      BY <2>1, <2>4, <3>2
  <2> QED
    BY <2>2, <2>3, <2>4
<1>6. Balanced(V)'
  BY <1>5 DEF Balanced
<1> QED
  BY <1>3, <1>6

\* H5?close: the reference the wrapper stands for is given back.
LEMMA ReturnCloseKeeps ==
    ASSUME LibraryInv, HandlesType, NEW W, Accounted(W), NEW t \in Threads, ReturnClose(t)
    PROVE  HandlesType' /\ (\E Z \in Weights : Accounted(Z))'
<1>1. /\ Busy(t) /\ Returns(t) /\ Step(t).do = "close" /\ held' = held /\ strays' = strays
      /\ refs' = IF IsOpen(held[Step(t).at]) THEN [refs EXCEPT ![held[Step(t).at]] = @ - 1] ELSE refs
  BY DEF ReturnClose, Ready
<1>2. depth' = depth /\ calls' = calls /\ faults' = faults
  BY <1>1, ReturnParts
<1>3. PICK a, m \in Accounts :
         /\ Describes(t, a, W) /\ Sound(t, a) /\ Moves(t, a, Step(t), m)
         /\ Sound(t, m)' /\ todo' \in [Threads -> Programs]
         /\ \A u \in Threads : u # t => todo'[u] = todo[u]
  BY <1>1, ReturnParts
<1>4. CloseMoves(t, a, Step(t), m)
  BY <1>1, <1>3, MovesOfKind
<1>5. PICK p \in Mine(t) :
         /\ Step(t) = Closing(p) /\ a.weight[p] # 0
         /\ m = Account(a.depth, Lower(a.weight, p), a.twin)
  BY <1>4 DEF CloseMoves
<1>6. p \in Places /\ p \in Reach(t) /\ Reach(t) \subseteq Places
  BY ReachInPlaces DEF Reach
<1>7. /\ held \in [Places -> Ids \cup {None}] /\ W \in Weights /\ a.weight \in Weights
      /\ \A x \in Reach(t) : W[x] = a.weight[x]
      /\ \A x \in Places : W[x] = -1 => held[x] = None
      /\ depth[t] = a.depth /\ a.twin \in Reach(t) \X Reach(t)
      /\ held[a.twin[1]] = held[a.twin[2]]
  BY <1>3, AccountParts DEF HandlesType, Accounted, Weighted, Describes
<1>8. Step(t).at = p
  BY <1>5 DEF Closing, Call
<1> DEFINE V == Lower(W, p)
<1>9. /\ W[p] \in {-1} \cup 1 .. 3 /\ V \in Weights /\ Apart(p, V, W)
      /\ V[p] = IF W[p] = -1 THEN -1 ELSE W[p] - 1
  <2>1. W[p] \in -1 .. 3 /\ W[p] # 0
    BY <1>5, <1>6, <1>7 DEF Weights
  <2> QED
    BY <1>6, <1>7, <2>1 DEF Weights, Apart, Lower
<1>10. m.depth = a.depth /\ m.twin = a.twin /\ \A x \in Reach(t) : m.weight[x] = V[x]
  BY <1>5, <1>6, <1>7 DEF Account, Lower, Weights
<1> HIDE DEF V
<1>11. Weighted(V)' /\ Balanced(V)'
  <2>1. CASE W[p] = -1
    <3>1. held[p] = None /\ refs' = refs
      BY <1>1, <1>6, <1>7, <1>8, <2>1, NoneIsNoId DEF IsOpen
    <3> QED
      BY <1>1, <1>9, <2>1, <3>1, CountKeeps
  <2>2. CASE W[p] \in 1 .. 3
    <3>1. V[p] = W[p] - 1 /\ V[p] # -1 /\ W[p] > 0
      BY <1>9, <2>2
    <3>2. held[p] # None <=> IsOpen(held[p])
      BY <1>6, <3>1, BackedIsOpen, NoneIsNoId DEF IsOpen
    <3>3. refs' = IF held[p] # None THEN [refs EXCEPT ![held[p]] = @ - 1] ELSE refs
      BY <1>1, <1>8, <3>2
    <3> QED
      BY <1>1, <1>9, <2>2, <3>1, <3>3, CountKeeps
  <2> QED
    BY <1>9, <2>1, <2>2
<1>12. Describes(t, m, V)'
  BY <1>1, <1>2, <1>7, <1>10 DEF Describes
<1>13. HandlesType'
  BY <1>1, <1>2, <1>3 DEF HandlesType
<1>14. \A x \in Places \ Mine(t) : held'[x] = held[x] /\ V[x] = W[x]
  BY <1>1, <1>5, <1>9 DEF Apart
<1> QED
  BY <1>2, <1>3, <1>11, <1>12, <1>13, <1>14, AccountedStep

\* H5Iinc_ref: the id that is copied is open, for its source stands for a
\* reference.
LEMMA ReturnRetainKeeps ==
    ASSUME LibraryInv, HandlesType, NEW W, Accounted(W), NEW t \in Threads, ReturnRetain(t)
    PROVE  HandlesType' /\ (\E Z \in Weights : Accounted(Z))'
<1>1. /\ Busy(t) /\ Returns(t) /\ Step(t).do = "retain" /\ held' = held /\ strays' = strays
      /\ refs' = IF IsOpen(held[Step(t).at]) THEN [refs EXCEPT ![held[Step(t).at]] = @ + 1] ELSE refs
  BY DEF ReturnRetain, Ready
<1>2. depth' = depth /\ calls' = calls /\ faults' = faults
  BY <1>1, ReturnParts
<1>3. PICK a, m \in Accounts :
         /\ Describes(t, a, W) /\ Sound(t, a) /\ Moves(t, a, Step(t), m)
         /\ Sound(t, m)' /\ todo' \in [Threads -> Programs]
         /\ \A u \in Threads : u # t => todo'[u] = todo[u]
  BY <1>1, ReturnParts
<1>4. RetainMoves(t, a, Step(t), m)
  BY <1>1, <1>3, MovesOfKind
<1>5. PICK p \in Mine(t) :
         /\ Step(t) = Retaining(p) /\ a.weight[p] < 3 /\ Backed(a, p)
         /\ m = Account(a.depth, [a.weight EXCEPT ![p] = a.weight[p] + 1], a.twin)
  BY <1>4 DEF RetainMoves
<1>6. p \in Places /\ p \in Reach(t) /\ Reach(t) \subseteq Places
  BY ReachInPlaces DEF Reach
<1>7. /\ held \in [Places -> Ids \cup {None}] /\ W \in Weights /\ a.weight \in Weights
      /\ \A x \in Reach(t) : W[x] = a.weight[x]
      /\ \A x \in Places : W[x] = -1 => held[x] = None
      /\ depth[t] = a.depth /\ a.twin \in Reach(t) \X Reach(t)
      /\ held[a.twin[1]] = held[a.twin[2]]
  BY <1>3, AccountParts DEF HandlesType, Accounted, Weighted, Describes
<1>8. Step(t).at = p
  BY <1>5 DEF Retaining, Call
<1> DEFINE V == [W EXCEPT ![p] = W[p] + 1]
<1>9. /\ W[p] \in 0 .. 2 /\ V \in Weights /\ Apart(p, V, W) /\ V[p] = W[p] + 1 /\ V[p] # -1
  <2>1. W[p] \in -1 .. 3 /\ W[p] < 3 /\ W[p] >= 0
    BY <1>5, <1>6, <1>7 DEF Weights, Backed
  <2> QED
    BY <1>6, <1>7, <2>1 DEF Weights, Apart
<1>10. m.depth = a.depth /\ m.twin = a.twin /\ \A x \in Reach(t) : m.weight[x] = V[x]
  BY <1>5, <1>6, <1>7 DEF Account, Weights
<1> HIDE DEF V
<1>11. held[p] # None <=> IsOpen(held[p])
  <2>1. \A x \in Places : W[x] > 0 /\ held[x] # None => IsOpen(held[x])
    BY BackedIsOpen
  <2>2. CASE W[p] > 0
    BY <1>6, <2>1, <2>2, NoneIsNoId DEF IsOpen
  <2>3. CASE W[p] <= 0
    <3>1. a.twin[1] = p /\ W[a.twin[2]] > 0 /\ a.twin[2] \in Places
      <4>1. a.twin[1] \in Reach(t) /\ a.twin[2] \in Reach(t)
        BY <1>7
      <4>2. a.weight[p] <= 0
        BY <1>6, <1>7, <2>3
      <4>3. a.twin[1] = p /\ a.weight[a.twin[2]] > 0
        <5>1. ~(a.weight[p] > 0)
          BY <1>6, <1>7, <1>9, <4>2
        <5> QED
          BY <1>5, <5>1, Zenon DEF Backed
      <4>4. W[a.twin[2]] = a.weight[a.twin[2]]
        BY <1>7, <4>1
      <4>5. W[a.twin[2]] > 0
        BY <4>3, <4>4
      <4> QED
        BY <1>6, <4>1, <4>3, <4>5
    <3>2. held[a.twin[2]] = held[p]
      BY <1>7, <3>1
    <3> QED
      BY <2>1, <3>1, <3>2, NoneIsNoId DEF IsOpen
  <2> QED
    BY <1>9, <2>2, <2>3
<1>12. Weighted(V)' /\ Balanced(V)'
  <2>1. refs' = IF held[p] # None THEN [refs EXCEPT ![held[p]] = @ + 1] ELSE refs
    BY <1>1, <1>8, <1>11
  <2> QED
    BY <1>1, <1>9, <2>1, CountKeeps
<1>13. Describes(t, m, V)'
  BY <1>1, <1>2, <1>7, <1>10 DEF Describes
<1>14. HandlesType'
  BY <1>1, <1>2, <1>3 DEF HandlesType
<1>15. \A x \in Places \ Mine(t) : held'[x] = held[x] /\ V[x] = W[x]
  BY <1>1, <1>5, <1>9 DEF Apart
<1> QED
  BY <1>2, <1>3, <1>12, <1>13, <1>14, <1>15, AccountedStep

\* HDF5 hands out an id that nobody has and nothing is known of.
LEMMA FreshUnknown ==
    ASSUME HandlesType, NEW W, Accounted(W), Unknown # {}
    PROVE  /\ Fresh \in Ids /\ refs[Fresh] = 0 /\ \A p \in Places : held[p] # Fresh
           /\ strays[Fresh] = 0 /\ Cardinality(Claims(held, W, Fresh)) = 0
<1>1. Fresh \in Unknown
  BY Zenon DEF Fresh
<1>2. Fresh \in Ids /\ refs[Fresh] = 0 /\ \A p \in Places : held[p] # Fresh
  BY <1>1 DEF Unknown
<1>3. /\ Cardinality(Claims(held, W, Fresh)) \in Nat /\ strays[Fresh] \in Nat
      /\ refs[Fresh] = Cardinality(Claims(held, W, Fresh)) + strays[Fresh]
  BY <1>2, ClaimsFinite DEF HandlesType, Accounted, Balanced
<1> QED
  BY <1>2, <1>3

\* H5Pcreate, H5Tcopy, H5Pcopy, H5Dopen2, H5Dget_access_plist: the new id has
\* the one reference of the place it is delivered to.
LEMMA ReturnOpenKeeps ==
    ASSUME LibraryInv, HandlesType, NEW W, Accounted(W), NEW t \in Threads,
           ReturnCreate(t) \/ ReturnDerive(t)
    PROVE  HandlesType' /\ (\E Z \in Weights : Accounted(Z))'
<1>1. /\ Busy(t) /\ Returns(t) /\ Step(t).do \in {"create", "derive"} /\ strays' = strays
      /\ Unknown # {}
      /\ held' = [held EXCEPT ![Step(t).at] = Fresh] /\ refs' = [refs EXCEPT ![Fresh] = 1]
  BY DEF ReturnCreate, ReturnDerive, Ready
<1>2. depth' = depth /\ calls' = calls /\ faults' = faults
  BY <1>1, ReturnParts
<1>3. PICK a, m \in Accounts :
         /\ Describes(t, a, W) /\ Sound(t, a) /\ Moves(t, a, Step(t), m)
         /\ Sound(t, m)' /\ todo' \in [Threads -> Programs]
         /\ \A u \in Threads : u # t => todo'[u] = todo[u]
  BY <1>1, ReturnParts
<1>4. OpenMoves(t, a, Step(t), m)
  BY <1>1, <1>3, MovesOfKind
<1>5. PICK p \in Mine(t) :
         /\ \E q \in Reach(t), checked \in BOOLEAN :
               Step(t) = Call("create", p, q, checked) \/ Step(t) = Call("derive", p, q, checked)
         /\ a.weight[p] = -1
         /\ m = Account(a.depth, [a.weight EXCEPT ![p] = 1], NoTwin)
  BY <1>4 DEF OpenMoves
<1>a. Step(t).at = p
  BY <1>5 DEF Call
<1>6. /\ p \in Places /\ p \notin Shared /\ p \in Reach(t) /\ Reach(t) \subseteq Places
      /\ Shared \subseteq Reach(t)
  BY ReachInPlaces DEF Reach
<1>7. /\ held \in [Places -> Ids \cup {None}] /\ W \in Weights /\ a.weight \in Weights
      /\ \A x \in Reach(t) : W[x] = a.weight[x]
      /\ \A x \in Shared : W[x] = 1
      /\ \A x \in Places : W[x] = -1 => held[x] = None
      /\ depth[t] = a.depth /\ strays \in [Ids -> Nat] /\ refs \in [Ids -> Nat]
      /\ \A i \in Ids : refs[i] = Cardinality(Claims(held, W, i)) + strays[i]
  BY <1>3, AccountParts DEF HandlesType, Accounted, Weighted, Describes, LibraryInv, Balanced
<1>8. /\ Fresh \in Ids /\ \A x \in Places : held[x] # Fresh
      /\ strays[Fresh] = 0
  BY <1>1, FreshUnknown
<1> DEFINE V == [W EXCEPT ![p] = 1]
<1>9. W[p] = -1 /\ V \in Weights /\ V[p] = 1 /\ Apart(p, V, W)
  BY <1>5, <1>6, <1>7 DEF Weights, Apart
<1>10. m.depth = a.depth /\ m.twin = NoTwin /\ \A x \in Reach(t) : m.weight[x] = V[x]
  BY <1>5, <1>6, <1>7 DEF Account, Weights
<1>11. held'[p] = Fresh /\ Apart(p, held', held) /\ held' \in [Places -> Ids \cup {None}]
  BY <1>1, <1>a, <1>6, <1>7, <1>8 DEF Apart
<1> HIDE DEF V
<1>12. Weighted(V)'
  BY <1>6, <1>7, <1>9, <1>11 DEF Weighted, Apart
<1>13. Balanced(V)'
  <2>0. /\ W \in Weights /\ p \in Places /\ \A x \in Places : held[x] # Fresh
        /\ Apart(p, held', held) /\ held'[p] = Fresh
    BY <1>6, <1>7, <1>8, <1>11
  <2>1. ASSUME NEW i \in Ids
        PROVE  refs'[i] = Cardinality(Claims(held', V, i)) + strays'[i]
    <3>1. Cardinality(Claims(held', V, i)) = IF i = Fresh THEN 1 ELSE Cardinality(Claims(held, W, i))
      BY <1>9, <2>0, ClaimsNew
    <3>2. CASE i = Fresh
      BY <1>1, <1>7, <1>8, <3>1, <3>2
    <3>3. CASE i # Fresh
      <4>1. refs'[i] = refs[i] /\ strays'[i] = strays[i]
        BY <1>1, <1>7, <1>8, <3>3
      <4> QED
        BY <1>7, <3>1, <3>3, <4>1
    <3> QED
      BY <3>2, <3>3
  <2> QED
    BY <2>1 DEF Balanced
<1>14. Describes(t, m, V)'
  <2>1. NoTwin \in Reach(t) \X Reach(t) /\ NoTwin[1] = NoTwin[2]
    BY <1>6 DEF NoTwin, Shared
  <2> QED
    BY <1>2, <1>7, <1>10, <2>1 DEF Describes
<1>15. HandlesType'
  BY <1>1, <1>2, <1>3, <1>11 DEF HandlesType
<1>16. \A x \in Places \ Mine(t) : held'[x] = held[x] /\ V[x] = W[x]
  BY <1>5, <1>9, <1>11 DEF Apart
<1> QED
  BY <1>2, <1>3, <1>12, <1>13, <1>14, <1>15, <1>16, AccountedStep

\* A call that delivers no id to a wrapper; the ids that h5::open leaves open
\* are lost as soon as they are there.
LEMMA ReturnUseKeeps ==
    ASSUME LibraryInv, HandlesType, NEW W, Accounted(W), NEW t \in Threads,
           ReturnSet(t) \/ ReturnTransfer(t) \/ ReturnDescribe(t)
    PROVE  HandlesType' /\ (\E Z \in Weights : Accounted(Z))'
<1>1. /\ Busy(t) /\ Returns(t) /\ Step(t).do \in {"set", "transfer", "describe"} /\ held' = held
      /\ \/ refs' = refs /\ strays' = strays
         \/ /\ Unknown # {}
            /\ refs' = [refs EXCEPT ![Fresh] = 1] /\ strays' = [strays EXCEPT ![Fresh] = 1]
  BY DEF ReturnSet, ReturnTransfer, ReturnDescribe, Ready, library
<1>2. depth' = depth /\ calls' = calls /\ faults' = faults
  BY <1>1, ReturnParts
<1>3. PICK a, m \in Accounts :
         /\ Describes(t, a, W) /\ Sound(t, a) /\ Moves(t, a, Step(t), m)
         /\ Sound(t, m)' /\ todo' \in [Threads -> Programs]
         /\ \A u \in Threads : u # t => todo'[u] = todo[u]
  BY <1>1, ReturnParts
<1>4. m = a
  BY <1>1, <1>3, MovesOfKind DEF UseMoves
<1>5. /\ strays \in [Ids -> Nat] /\ refs \in [Ids -> Nat]
      /\ \A i \in Ids : refs[i] = Cardinality(Claims(held, W, i)) + strays[i]
  BY DEF HandlesType, Accounted, LibraryInv, Balanced
<1>6. strays' \in [Ids -> Nat] /\ Balanced(W)'
  <2>1. CASE refs' = refs /\ strays' = strays
    BY <1>1, <1>5, <2>1 DEF Balanced
  <2>2. CASE /\ Unknown # {}
             /\ refs' = [refs EXCEPT ![Fresh] = 1] /\ strays' = [strays EXCEPT ![Fresh] = 1]
    <3>1. Fresh \in Ids /\ Cardinality(Claims(held, W, Fresh)) = 0
      BY <2>2, FreshUnknown
    <3>2. strays' \in [Ids -> Nat]
      BY <1>5, <2>2
    <3>3. \A i \in Ids : refs'[i] = Cardinality(Claims(held', W, i)) + strays'[i]
      BY <1>1, <1>5, <2>2, <3>1
    <3> QED
      BY <3>2, <3>3 DEF Balanced
  <2> QED
    BY <1>1, <2>1, <2>2
<1>7. Weighted(W)' /\ Describes(t, m, W)'
  BY <1>1, <1>2, <1>3, <1>4 DEF Accounted, Weighted, Describes
<1>8. HandlesType'
  BY <1>1, <1>2, <1>3, <1>6 DEF HandlesType
<1>9. \A x \in Places \ Mine(t) : held'[x] = held[x] /\ W[x] = W[x]
  BY <1>1
<1> QED
  BY <1>2, <1>3, <1>6, <1>7, <1>8, <1>9, AccountedStep

\* A call fails: an exception goes on with what unwinding does, from the
\* account the call was made in; a call that is not checked delivers nothing.
LEMMA CallFailsKeeps ==
    ASSUME LockInv, HandlesType, NEW W, Accounted(W), NEW t \in Threads, CallFails(t)
    PROVE  HandlesType' /\ (\E Z \in Weights : Accounted(Z))'
<1>1. /\ Busy(t) /\ IsCall(Step(t)) /\ faults < MaxFaults /\ faults' = faults + 1
      /\ depth' = depth /\ held' = held /\ refs' = refs /\ strays' = strays /\ calls' = calls
  BY DEF CallFails, SetFails, Orphan, Leave, library
<1>2. faults' \in 0 .. MaxFaults
  BY <1>1, HandlesAssumption DEF HandlesType
<1>3. \A x \in Places \ Mine(t) : held'[x] = held[x]
  BY <1>1
<1>4. ASSUME Step(t).checked, Throw(t)
      PROVE  HandlesType' /\ (\E Z \in Weights : Accounted(Z))'
  <2>1. PICK a \in Accounts : Describes(t, a, W) /\ Sound(t, a)
    BY DEF Accounted
  <2>2. Releases(t) = Unlocks(a.depth)
    <3>1. Len(tops[t]) = a.depth
      BY <2>1 DEF LockInv, Describes
    <3> QED
      BY <3>1 DEF Releases, Unlocks
  <2> DEFINE rest == todo[t].within \o Unlocks(a.depth) \o todo[t].after
             next == IF rest = <<>> THEN Nothing ELSE [Nothing EXCEPT !.steps = rest]
  <2>3. PICK e \in Ends(t) : Outline(t, a, rest, e, {})
    <3>1. Fails(Step(t)) /\ ~Idle(t)
      BY <1>1, <1>4 DEF Fails, Busy
    <3> QED
      BY <2>1, <3>1, StepSound
  <2>4. rest \in Seq(Steps)
    BY <2>3 DEF Outline
  <2>5. todo' = [todo EXCEPT ![t] = next]
    BY <1>4, <2>2 DEF Throw
  <2>6. next = [steps |-> rest, within |-> <<>>, after |-> <<>>]
    BY DEF Nothing
  <2> HIDE DEF rest, next
  <2>7. next \in Programs
    BY <2>4, <2>6 DEF Programs
  <2>8. /\ todo' \in [Threads -> Programs] /\ todo'[t] = next
        /\ \A u \in Threads : u # t => todo'[u] = todo[u]
    BY <2>5, <2>7 DEF HandlesType
  <2>9. Sound(t, a)'
    <3>1. /\ next.steps = rest /\ next.within = <<>> /\ next.after = <<>>
          /\ rest = <<>> => next = Nothing
      BY <2>6 DEF Nothing
    <3>2. Handled(t, {}, <<>>, <<>>) /\ {} \in SUBSET Accounts
      BY DEF Handled
    <3> QED
      BY <2>3, <2>8, <3>1, <3>2 DEF Sound, Idle
  <2>10. Describes(t, a, W)' /\ Weighted(W)' /\ Balanced(W)'
    BY <1>1, <2>1 DEF Describes, Weighted, Balanced, Accounted
  <2>11. HandlesType'
    BY <1>1, <1>2, <2>8 DEF HandlesType
  <2> QED
    BY <1>1, <1>3, <2>8, <2>9, <2>10, <2>11, AccountedStep
<1>5. ASSUME Step(t).do \in {"derive", "create"}, Advance(t)
      PROVE  HandlesType' /\ (\E Z \in Weights : Accounted(Z))'
  <2>1. PICK a, m \in Accounts :
           /\ Describes(t, a, W) /\ Sound(t, a) /\ Moves(t, a, Step(t), m)
           /\ Sound(t, m)' /\ todo' \in [Threads -> Programs]
           /\ \A u \in Threads : u # t => todo'[u] = todo[u]
    BY <1>1, <1>5, Current
  <2>2. PICK p \in Mine(t) :
           a.weight[p] = -1 /\ m = Account(a.depth, [a.weight EXCEPT ![p] = 1], NoTwin)
    BY <1>5, <2>1, MovesOfKind DEF OpenMoves
  <2>3. /\ p \in Places /\ p \notin Shared /\ p \in Reach(t) /\ Reach(t) \subseteq Places
        /\ Shared \subseteq Reach(t)
    BY ReachInPlaces DEF Reach
  <2>4. /\ held \in [Places -> Ids \cup {None}] /\ W \in Weights /\ a.weight \in Weights
        /\ \A x \in Reach(t) : W[x] = a.weight[x]
        /\ \A x \in Shared : W[x] = 1
        /\ \A x \in Places : W[x] = -1 => held[x] = None
        /\ depth[t] = a.depth
        /\ \A i \in Ids : refs[i] = Cardinality(Claims(held, W, i)) + strays[i]
    BY <2>1, AccountParts DEF HandlesType, Accounted, Weighted, Describes, Balanced
  <2> DEFINE V == [W EXCEPT ![p] = 1]
  <2>5. W[p] = -1 /\ held[p] = None /\ V \in Weights /\ V[p] = 1 /\ Apart(p, V, W)
    BY <2>2, <2>3, <2>4 DEF Weights, Apart
  <2>6. m.depth = a.depth /\ m.twin = NoTwin /\ \A x \in Reach(t) : m.weight[x] = V[x]
    BY <2>2, <2>3, <2>4 DEF Account, Weights
  <2> HIDE DEF V
  <2>7. Weighted(V)'
    BY <1>1, <2>3, <2>4, <2>5 DEF Weighted, Apart
  <2>8. Balanced(V)'
    <3>1. \A x \in Places : V[x] # W[x] => held[x] = None
      BY <2>5 DEF Apart
    <3>2. \A i \in Ids : Claims(held, V, i) = Claims(held, W, i)
      BY <2>4, <3>1, ClaimsVacant
    <3> QED
      BY <1>1, <2>4, <3>2 DEF Balanced
  <2>9. Describes(t, m, V)'
    <3>1. NoTwin \in Reach(t) \X Reach(t) /\ NoTwin[1] = NoTwin[2]
      BY <2>3 DEF NoTwin, Shared
    <3> QED
      BY <1>1, <2>4, <2>6, <3>1 DEF Describes
  <2>10. HandlesType'
    BY <1>1, <1>2, <2>1 DEF HandlesType
  <2>11. \A x \in Places \ Mine(t) : held'[x] = held[x] /\ V[x] = W[x]
    BY <1>1, <2>2, <2>5 DEF Apart
  <2> QED
    BY <1>1, <2>1, <2>7, <2>8, <2>9, <2>10, <2>11, AccountedStep
<1>6. ASSUME Step(t).do = "set", Advance(t)
      PROVE  HandlesType' /\ (\E Z \in Weights : Accounted(Z))'
  <2>1. PICK a, m \in Accounts :
           /\ Describes(t, a, W) /\ Sound(t, a) /\ Moves(t, a, Step(t), m)
           /\ Sound(t, m)' /\ todo' \in [Threads -> Programs]
           /\ \A u \in Threads : u # t => todo'[u] = todo[u]
    BY <1>1, <1>6, Current
  <2>2. m = a
    BY <1>6, <2>1, MovesOfKind DEF UseMoves
  <2>3. Describes(t, m, W)' /\ Weighted(W)' /\ Balanced(W)'
    BY <1>1, <2>1, <2>2 DEF Describes, Weighted, Balanced, Accounted
  <2>4. HandlesType'
    BY <1>1, <1>2, <2>1 DEF HandlesType
  <2> QED
    BY <1>1, <1>3, <2>1, <2>3, <2>4, AccountedStep
<1>7. ASSUME Step(t).do = "set"
      PROVE  Step(t).checked
  <2>1. PICK a, m \in Accounts : Moves(t, a, Step(t), m)
    BY <1>1, StepSound DEF Accounted, Busy
  <2>2. UseMoves(t, a, Step(t), m)
    BY <1>7, <2>1, MovesOfKind
  <2> QED
    BY <1>7, <2>2 DEF UseMoves, Setting, Describing, Call
<1> QED
  BY <1>4, <1>5, <1>6, <1>7, Zenon DEF CallFails, SetFails

(***************************************************************************)
(* Operations begin                                                        *)
(***************************************************************************)
\* What there is to do, when it is something.
Tasks == Seq(Steps) \ {<<>>}

\* The steps of the threads are steps at places.
LEMMA StepsTyped ==
    /\ Locking \in Steps /\ Unlocking \in Steps
    /\ \A p, q \in Places : Taking(p, q) \in Steps
    /\ \A p \in Places : Dropping(p) \in Steps
    /\ \A p \in Places, n \in Nat : Abandoning(p, n) \in Steps
    /\ \A name \in {"close", "retain", "create", "set", "derive", "describe", "transfer"} :
           \A p, q \in Places, checked \in BOOLEAN : Call(name, p, q, checked) \in Steps
<1>1. Locking \in Steps /\ Unlocking \in Steps
  BY DEF Locking, Unlocking, Steps
<1>2. \A p, q \in Places : Taking(p, q) \in Steps
  BY DEF Taking, Steps
<1>3. \A p \in Places : Dropping(p) \in Steps
  BY DEF Dropping, Steps
<1>4. ASSUME NEW p \in Places, NEW n \in Nat
      PROVE  Abandoning(p, n) \in Steps
  <2>1. Abandoning(p, n) \in [do : {"abandon"}, at : Places, count : Nat]
    BY DEF Abandoning
  <2> QED
    BY <2>1 DEF Steps
<1>5. ASSUME NEW name \in {"close", "retain", "create", "set", "derive", "describe", "transfer"},
             NEW p \in Places, NEW q \in Places, NEW checked \in BOOLEAN
      PROVE  Call(name, p, q, checked) \in Steps
  BY DEF Call, Steps
<1> QED
  BY <1>1, <1>2, <1>3, <1>4, <1>5

\* Steps behind steps, and steps under a lock.
LEMMA TasksJoin ==
    ASSUME NEW s1 \in Seq(Steps), NEW s2 \in Seq(Steps)
    PROVE  /\ s1 \o s2 \in Seq(Steps)
           /\ s1 \in Tasks \/ s2 \in Tasks => s1 \o s2 \in Tasks
           /\ UnderLock(s1) \in Tasks
<1>1. s1 \o s2 \in Seq(Steps) /\ Len(s1 \o s2) = Len(s1) + Len(s2)
  BY ConcatProperties
<1>2. s1 \in Tasks \/ s2 \in Tasks => s1 \o s2 \in Tasks
  <2>1. ASSUME s1 # <<>> \/ s2 # <<>>
        PROVE  s1 \o s2 # <<>>
    <3>1. Len(s1) > 0 \/ Len(s2) > 0
      BY <2>1, EmptySeq, LenProperties
    <3>2. Len(s1 \o s2) # 0
      BY <1>1, <3>1, LenProperties
    <3> QED
      BY <3>2, EmptySeq
  <2> QED
    BY <1>1, <2>1 DEF Tasks
<1>3. UnderLock(s1) \in Tasks
  <2>1. <<Locking>> \in Seq(Steps) /\ <<Unlocking>> \in Seq(Steps)
    BY StepsTyped
  <2>2. <<Locking>> \o s1 \in Seq(Steps)
    BY <2>1, ConcatProperties
  <2>3. (<<Locking>> \o s1) \o <<Unlocking>> \in Seq(Steps)
    BY <2>1, <2>2, ConcatProperties
  <2>4. /\ Len(<<Unlocking>>) = 1
        /\ Len((<<Locking>> \o s1) \o <<Unlocking>>) = Len(<<Locking>> \o s1) + Len(<<Unlocking>>)
    BY <2>1, <2>2, ConcatProperties
  <2>5. Len((<<Locking>> \o s1) \o <<Unlocking>>) # 0
    BY <2>2, <2>4, LenProperties
  <2>6. (<<Locking>> \o s1) \o <<Unlocking>> # <<>>
    BY <2>3, <2>5, EmptySeq
  <2> QED
    BY <2>3, <2>6 DEF UnderLock, Tasks
<1> QED
  BY <1>1, <1>2, <1>3

\* One step is something to do.
LEMMA TaskOne ==
    ASSUME NEW s \in Steps
    PROVE  <<s>> \in Tasks
<1>1. <<s>> \in Seq(Steps) /\ Len(<<s>>) = 1
  OBVIOUS
<1>2. Len(<<s>>) # 0
  BY <1>1
<1> QED
  BY <1>1, <1>2, EmptySeq DEF Tasks

\* Variables of t that hold nothing, and the weights that count them so.
Vacant(t, E) == E \subseteq VariablesOf(t) /\ \A p \in E : Empty(p)
Without(t, E, w) == \A p \in VariablesOf(t) : w[p] = IF p \in E THEN -1 ELSE 1

\* A thread that is idle has no lock and no temporary, and each of its
\* variables stands for one reference or none.
LEMMA IdleWeights ==
    ASSUME NEW W, Accounted(W), NEW t \in Threads, Idle(t)
    PROVE  /\ depth[t] = 0 /\ W[Temp(t)] = -1 /\ W[Raw(t)] = -1
           /\ \A p \in VariablesOf(t) : W[p] \in {-1, 1}
<1>1. PICK a \in Accounts : Describes(t, a, W) /\ Sound(t, a)
  BY DEF Accounted
<1>2. a \in Ends(t)
  <2>1. todo[t].steps = <<>>
    BY DEF Idle, Nothing
  <2>2. PICK X \in SUBSET Accounts, b \in Ends(t) : Outline(t, a, todo[t].steps, b, X)
    BY <1>1 DEF Sound
  <2>3. Outline(t, a, <<>>, b, X)
    BY <2>1, <2>2
  <2>4. b = a
    BY <2>3, OutlineNone
  <2> QED
    BY <2>2, <2>4
<1>3. /\ a.depth = 0 /\ a.weight[Temp(t)] = -1 /\ a.weight[Raw(t)] = -1
      /\ \A p \in VariablesOf(t) : a.weight[p] \in {-1, 1}
  BY <1>2 DEF Ends, Tidy
<1>4. /\ Temp(t) \in Reach(t) /\ Raw(t) \in Reach(t) /\ VariablesOf(t) \subseteq Reach(t)
  BY ReachInPlaces DEF Reach
<1> QED
  BY <1>1, <1>3, <1>4 DEF Describes

\* A thread that is idle may count its empty variables as holding nothing or
\* as standing for a reference to nothing.
LEMMA IdleAccount ==
    ASSUME HandlesType, NEW W, Accounted(W), NEW t \in Threads, Idle(t),
           NEW E, Vacant(t, E)
    PROVE  \E Z \in Tidy(t, -1, -1) :
              /\ Weighted(Z) /\ Balanced(Z) /\ Describes(t, Account(0, Z, NoTwin), Z)
              /\ Without(t, E, Z)
              /\ \A p \in Places \ Mine(t) : Z[p] = W[p]
<1>1. /\ depth[t] = 0 /\ W[Temp(t)] = -1 /\ W[Raw(t)] = -1
      /\ \A p \in VariablesOf(t) : W[p] \in {-1, 1}
  BY IdleWeights
<1>2. /\ held \in [Places -> Ids \cup {None}] /\ W \in Weights
      /\ \A x \in Shared : W[x] = 1
      /\ \A x \in Places : W[x] = -1 => held[x] = None
      /\ \A i \in Ids : refs[i] = Cardinality(Claims(held, W, i)) + strays[i]
  BY DEF HandlesType, Accounted, Weighted, Balanced
<1>3. /\ Mine(t) \subseteq Places /\ Shared \subseteq Places /\ Reach(t) = Mine(t) \cup Shared
      /\ Mine(t) = VariablesOf(t) \cup {Temp(t), Raw(t)} /\ Mine(t) \cap Shared = {}
      /\ Temp(t) \notin VariablesOf(t) /\ Raw(t) \notin VariablesOf(t)
      /\ NoTwin \in Places \X Places
  BY ReachInPlaces DEF Reach
<1> DEFINE V == [p \in Places |->
                    IF p \in Mine(t)
                    THEN IF p \in VariablesOf(t) \ E THEN 1 ELSE -1
                    ELSE W[p]]
<1>4. /\ V \in Weights
      /\ V[Temp(t)] = -1 /\ V[Raw(t)] = -1
      /\ \A p \in VariablesOf(t) : V[p] = IF p \in E THEN -1 ELSE 1
      /\ \A p \in Places \ Mine(t) : V[p] = W[p]
      /\ \A p \in Shared : V[p] = 1
  <2>1. \A p \in Places : W[p] \in -1 .. 3
    BY <1>2 DEF Weights
  <2>2. V \in Weights
    BY <2>1 DEF Weights
  <2>3. V[Temp(t)] = -1 /\ V[Raw(t)] = -1
    BY <1>3
  <2>4. \A p \in Shared : V[p] = 1
    BY <1>2, <1>3
  <2> QED
    BY <1>3, <2>2, <2>3, <2>4
<1> HIDE DEF V
<1>5. V \in Tidy(t, -1, -1)
  <2>1. \A p \in VariablesOf(t) : V[p] \in {-1, 1}
    BY <1>4
  <2> QED
    BY <1>4, <2>1 DEF Tidy
<1>6. ASSUME NEW p \in Places, V[p] # W[p]
      PROVE  held[p] = None
  <2>1. p \in VariablesOf(t)
    BY <1>1, <1>2, <1>3, <1>4, <1>6
  <2>2. W[p] \in {-1, 1}
    BY <1>1, <1>2, <1>3, <2>1
  <2> QED
    BY <1>2, <1>4, <1>6, <2>1, <2>2 DEF Empty, Vacant
<1>7. Weighted(V)
  <2>1. ASSUME NEW p \in Places, V[p] = -1
        PROVE  held[p] = None
    BY <1>2, <1>6, <2>1
  <2> QED
    BY <1>4, <2>1 DEF Weighted
<1>8. Balanced(V)
  <2>1. \A i \in Ids : Claims(held, V, i) = Claims(held, W, i)
    BY <1>2, <1>6, ClaimsVacant
  <2> QED
    BY <1>2, <2>1 DEF Balanced
<1>9. Describes(t, Account(0, V, NoTwin), V)
  <2>1. NoTwin \in Reach(t) \X Reach(t) /\ NoTwin[1] = NoTwin[2]
    BY <1>3 DEF NoTwin, Shared
  <2>2. /\ Account(0, V, NoTwin).depth = 0 /\ Account(0, V, NoTwin).weight = V
        /\ Account(0, V, NoTwin).twin = NoTwin
    BY DEF Account
  <2> QED
    BY <1>1, <2>1, <2>2 DEF Describes
<1>10. Without(t, E, V)
  BY <1>4 DEF Without
<1> QED
  BY <1>4, <1>5, <1>7, <1>8, <1>9, <1>10

\* A thread begins what leads from the accounts it may be in to an end.
LEMMA BeginKeeps ==
    ASSUME LockInv, HandlesType, NEW W, Accounted(W), NEW t \in Threads,
           NEW name, NEW steps, NEW within \in Seq(Steps), NEW after \in Seq(Steps),
           Guarded(t, name, steps, within, after),
           steps = <<>> => within = <<>> /\ after = <<>>,
           NEW E, Vacant(t, E),
           NEW X \in SUBSET Accounts, Handled(t, X, within, after),
           \A w \in Tidy(t, -1, -1) : Without(t, E, w) =>
               \E b \in Ends(t) : Outline(t, Account(0, w, NoTwin), steps, b, X)
    PROVE  HandlesType' /\ (\E Z \in Weights : Accounted(Z))'
<1> DEFINE next == [steps |-> steps, within |-> within, after |-> after]
<1>1. /\ calls < MaxCalls /\ calls' = calls + 1 /\ Idle(t)
      /\ todo' = [todo EXCEPT ![t] = next]
      /\ depth' = depth /\ held' = held /\ refs' = refs /\ strays' = strays /\ faults' = faults
  BY DEF Guarded, library, lockVars
<1>2. PICK Z \in Tidy(t, -1, -1) :
         /\ Weighted(Z) /\ Balanced(Z) /\ Describes(t, Account(0, Z, NoTwin), Z)
         /\ Without(t, E, Z)
         /\ \A p \in Places \ Mine(t) : Z[p] = W[p]
  BY <1>1, IdleAccount
<1> DEFINE a == Account(0, Z, NoTwin)
<1>3. PICK b \in Ends(t) : Outline(t, a, steps, b, X)
  BY <1>2
<1>4. steps \in Seq(Steps) /\ a \in Accounts
  <2>1. NoTwin \in Places \X Places /\ 0 \in 0 .. MaxDepth /\ Z \in Weights
    BY ReachInPlaces DEF MaxDepth, Tidy
  <2> QED
    BY <1>3, <2>1, AccountFields DEF Outline
<1> HIDE DEF a
<1>5. next \in Programs
  BY <1>4 DEF Programs
<1>6. /\ todo' \in [Threads -> Programs] /\ todo'[t] = next
      /\ \A u \in Threads : u # t => todo'[u] = todo[u]
  BY <1>1, <1>5 DEF HandlesType
<1>7. Sound(t, a)'
  <2>1. next.steps = steps /\ next.within = within /\ next.after = after
    OBVIOUS
  <2>2. steps = <<>> => next = Nothing
    BY DEF Nothing
  <2> HIDE DEF next
  <2> QED
    BY <1>3, <1>6, <2>1, <2>2 DEF Sound, Idle
<1>8. Weighted(Z)' /\ Balanced(Z)' /\ Describes(t, a, Z)'
  BY <1>1, <1>2 DEF Weighted, Balanced, Describes, a
<1>9. HandlesType'
  <2>1. calls' \in 0 .. MaxCalls
    BY <1>1, HandlesAssumption DEF HandlesType
  <2> QED
    BY <1>1, <1>6, <2>1 DEF HandlesType
<1>10. \A x \in Places \ Mine(t) : held'[x] = held[x] /\ Z[x] = W[x]
  BY <1>1, <1>2
<1>11. \A u \in Threads : u # t => depth'[u] = depth[u] /\ todo'[u] = todo[u]
  BY <1>1, <1>6
<1>12. a \in Accounts
  BY <1>4
<1>13. (\E V \in Weights : Accounted(V))'
  <2> HIDE DEF next
  <2> QED
    BY <1>7, <1>8, <1>10, <1>11, <1>12, AccountedStep
<1> QED
  BY <1>9, <1>13

\* What a variable can be copied or moved from.
LEMMA SourcesReach ==
    ASSUME NEW t \in Threads, NEW p \in VariablesOf(t), NEW q \in Sources(p)
    PROVE  /\ q \in Reach(t) /\ q # p /\ q \in VariablesOf(t) \cup Shared
           /\ q \in Own(p) => q \in VariablesOf(t)
<1>1. p[1] = t
  BY DEF VariablesOf, ListsOf, DatasetsOf
<1>2. Own(p) \subseteq VariablesOf(t)
  BY <1>1 DEF Own, VariablesOf
<1>3. VariablesOf(t) \cup Shared \subseteq Reach(t)
  BY ReachInPlaces DEF Reach
<1> QED
  BY <1>2, <1>3 DEF Sources

\* The variable p is empty, or it need not be counted as empty.
LEMMA VacantOne ==
    ASSUME NEW t \in Threads, NEW p \in VariablesOf(t)
    PROVE  /\ Vacant(t, {}) /\ (Empty(p) => Vacant(t, {p}))
           /\ \A w \in Tidy(t, -1, -1) :
                 /\ \A q \in Shared : w[q] = 1
                 /\ Without(t, {p}, w) => /\ w[p] = -1
                                          /\ \A q \in VariablesOf(t) : q # p => w[q] = 1
                 /\ Without(t, {}, w) => \A q \in VariablesOf(t) : w[q] = 1
BY DEF Vacant, Without, Tidy

\* An operation of the wrappers: no call of it ends in an exception.
LEMMA WrapperBegins ==
    ASSUME LockInv, HandlesType, NEW W, Accounted(W), NEW t \in Threads,
           NEW name, NEW steps, Begin(t, name, steps), NEW E, Vacant(t, E),
           \A w \in Tidy(t, -1, -1) : Without(t, E, w) =>
               \E b \in Ends(t) : Outline(t, Account(0, w, NoTwin), steps, b, {})
    PROVE  HandlesType' /\ (\E Z \in Weights : Accounted(Z))'
<1>1. Guarded(t, name, steps, <<>>, <<>>)
  BY DEF Begin
<1>2. <<>> \in Seq(Steps) /\ {} \in SUBSET Accounts /\ Handled(t, {}, <<>>, <<>>)
  BY DEF Handled
<1> QED
  BY <1>1, <1>2, BeginKeeps

\* Copies, moves, assignments and destructors.
LEMMA WrappersKeep ==
    ASSUME LockInv, HandlesType, NEW W, Accounted(W), NEW t \in Threads,
           \/ CopyCtor(t) \/ CopyAssignment(t) \/ MoveCtor(t) \/ MoveAssignment(t) \/ Dtor(t)
    PROVE  HandlesType' /\ (\E Z \in Weights : Accounted(Z))'
<1>t. NoTwin \in Places \X Places /\ \A w \in Tidy(t, -1, -1) : w \in Weights
  BY ReachInPlaces DEF Tidy
<1> DEFINE Free(p) == IF Empty(p) THEN {p} ELSE {}
<1>1. ASSUME NEW p \in VariablesOf(t)
      PROVE  /\ Vacant(t, Free(p))
             /\ \A w \in Tidy(t, -1, -1) : Without(t, Free(p), w) =>
                   /\ held[p] = None => w[p] = -1
                   /\ \A q \in VariablesOf(t) \cup Shared : q # p => w[q] = 1
  <2>1. CASE Empty(p)
    BY <2>1, VacantOne DEF Empty
  <2>2. CASE ~Empty(p)
    BY <2>2, VacantOne DEF Empty
  <2> QED
    BY <2>1, <2>2
<1> HIDE DEF Free
<1>2. CASE CopyCtor(t)
  <2>p. PICK p \in VariablesOf(t) : \E q \in Sources(p) : Empty(p) /\ Begin(t, "copy", CopyConstruct(p, q))
    BY <1>2 DEF CopyCtor
  <2>1. PICK q \in Sources(p) : Empty(p) /\ Begin(t, "copy", CopyConstruct(p, q))
    BY <2>p
  <2>2. q \in Reach(t) /\ p # q /\ q \in VariablesOf(t) \cup Shared
    BY SourcesReach
  <2>3. ASSUME NEW w \in Tidy(t, -1, -1), Without(t, Free(p), w)
        PROVE  \E b \in Ends(t) : Outline(t, Account(0, w, NoTwin), CopyConstruct(p, q), b, {})
    <3>1. w[p] = -1 /\ w[q] = 1
      BY <1>1, <2>1, <2>2, <2>3 DEF Empty
    <3> QED
      BY <1>t, <2>2, <3>1, CopyConstructOutline
  <2> QED
    BY <1>1, <2>1, <2>3, WrapperBegins
<1>3. CASE CopyAssignment(t)
  <2>p. PICK p \in VariablesOf(t) : \E q \in Sources(p) : Begin(t, "assign", CopyAssign(p, q))
    BY <1>3 DEF CopyAssignment
  <2>1. PICK q \in Sources(p) : Begin(t, "assign", CopyAssign(p, q))
    BY <2>p
  <2>2. q \in Reach(t) /\ p # q /\ q \in VariablesOf(t) \cup Shared
    BY SourcesReach
  <2>3. ASSUME NEW w \in Tidy(t, -1, -1), Without(t, Free(p), w)
        PROVE  \E b \in Ends(t) : Outline(t, Account(0, w, NoTwin), CopyAssign(p, q), b, {})
    <3>1. (held[p] = None => w[p] = -1) /\ w[q] = 1
      BY <1>1, <2>2, <2>3
    <3> QED
      BY <1>t, <2>2, <3>1, CopyAssignOutline
  <2> QED
    BY <1>1, <2>1, <2>3, WrapperBegins
<1>4. CASE MoveCtor(t)
  <2>p. PICK p \in VariablesOf(t) : \E q \in Own(p) \ {p} : Empty(p) /\ Begin(t, "move", MoveConstruct(p, q))
    BY <1>4 DEF MoveCtor
  <2>1. PICK q \in Own(p) \ {p} : Empty(p) /\ Begin(t, "move", MoveConstruct(p, q))
    BY <2>p
  <2>2. p # q /\ q \in VariablesOf(t)
    <3>1. q \in Sources(p)
      BY DEF Sources
    <3> QED
      BY <3>1, SourcesReach
  <2>3. ASSUME NEW w \in Tidy(t, -1, -1), Without(t, Free(p), w)
        PROVE  \E b \in Ends(t) : Outline(t, Account(0, w, NoTwin), MoveConstruct(p, q), b, {})
    <3>1. w[p] = -1 /\ w[q] = 1
      BY <1>1, <2>1, <2>2, <2>3 DEF Empty
    <3> QED
      BY <1>t, <2>2, <3>1, MoveConstructOutline
  <2> QED
    BY <1>1, <2>1, <2>3, WrapperBegins
<1>5. CASE MoveAssignment(t)
  <2>p. PICK p \in VariablesOf(t) : \E q \in Own(p) \ {p} : Begin(t, "assign", MoveAssign(p, q))
    BY <1>5 DEF MoveAssignment
  <2>1. PICK q \in Own(p) \ {p} : Begin(t, "assign", MoveAssign(p, q))
    BY <2>p
  <2>2. p # q /\ q \in VariablesOf(t)
    <3>1. q \in Sources(p)
      BY DEF Sources
    <3> QED
      BY <3>1, SourcesReach
  <2>3. ASSUME NEW w \in Tidy(t, -1, -1), Without(t, Free(p), w)
        PROVE  \E b \in Ends(t) : Outline(t, Account(0, w, NoTwin), MoveAssign(p, q), b, {})
    <3>1. (held[p] = None => w[p] = -1) /\ w[q] = 1
      BY <1>1, <2>2, <2>3
    <3> QED
      BY <1>t, <2>2, <3>1, MoveAssignOutline
  <2> QED
    BY <1>1, <2>1, <2>3, WrapperBegins
<1>6. CASE Dtor(t)
  <2>1. PICK p \in VariablesOf(t) : Begin(t, "destroy", Destroy(p))
    BY <1>6 DEF Dtor
  <2>2. ASSUME NEW w \in Tidy(t, -1, -1), Without(t, Free(p), w)
        PROVE  \E b \in Ends(t) : Outline(t, Account(0, w, NoTwin), Destroy(p), b, {})
    <3>1. held[p] = None => w[p] = -1
      BY <1>1, <2>2
    <3> QED
      BY <1>t, <3>1, DestroyOutline
  <2> QED
    BY <1>1, <2>1, <2>2, WrapperBegins
<1> QED
  BY <1>2, <1>3, <1>4, <1>5, <1>6

\* What the handlers of the operations do, and that there is something to do.
LEMMA HandlersTyped ==
    ASSUME NEW t \in Threads
    PROVE  /\ PropertyDtor(t) \in Tasks
           /\ \A n \in 1 .. 2 : <<Abandoning(Raw(t), n)>> \in Tasks
           /\ PropertyDtor(t) \o <<Abandoning(Raw(t), 1)>> \in Tasks
           /\ PropertyDtor(t) \o UnderLock(<<Closing(Raw(t))>>) \o <<Abandoning(Raw(t), 2)>> \in Tasks
           /\ \A p \in VariablesOf(t) : UnderLock(<<Closing(p)>>) \o <<Dropping(p)>> \in Tasks
<1>1. Tasks \subseteq Seq(Steps)
  BY DEF Tasks
<1>2. Temp(t) \in Places /\ Raw(t) \in Places /\ VariablesOf(t) \subseteq Places
  BY ReachInPlaces
<1>3. ASSUME NEW p \in Places
      PROVE  /\ UnderLock(<<Closing(p)>>) \in Tasks /\ <<Dropping(p)>> \in Tasks
             /\ UnderLock(<<Closing(p)>>) \o <<Dropping(p)>> \in Tasks
  <2>1. Closing(p) \in Steps /\ Dropping(p) \in Steps
    BY StepsTyped DEF Closing
  <2>2. <<Closing(p)>> \in Tasks /\ <<Dropping(p)>> \in Tasks
    BY <2>1, TaskOne
  <2>3. UnderLock(<<Closing(p)>>) \in Tasks
    BY <1>1, <2>2, TasksJoin
  <2> QED
    BY <1>1, <2>2, <2>3, TasksJoin
<1>4. PropertyDtor(t) \in Tasks
  BY <1>2, <1>3 DEF PropertyDtor
<1>5. \A n \in 1 .. 2 : <<Abandoning(Raw(t), n)>> \in Tasks
  <2>1. ASSUME NEW n \in 1 .. 2
        PROVE  <<Abandoning(Raw(t), n)>> \in Tasks
    <3>1. n \in Nat
      OBVIOUS
    <3>2. Abandoning(Raw(t), n) \in Steps
      BY <1>2, <3>1, StepsTyped
    <3> QED
      BY <3>2, TaskOne
  <2> QED
    BY <2>1
<1>6. 1 \in 1 .. 2 /\ 2 \in 1 .. 2
  OBVIOUS
<1>7. PropertyDtor(t) \o <<Abandoning(Raw(t), 1)>> \in Tasks
  BY <1>1, <1>4, <1>5, <1>6, TasksJoin
<1>8. PropertyDtor(t) \o UnderLock(<<Closing(Raw(t))>>) \in Tasks
  BY <1>1, <1>2, <1>3, <1>4, TasksJoin
<1>9. PropertyDtor(t) \o UnderLock(<<Closing(Raw(t))>>) \o <<Abandoning(Raw(t), 2)>> \in Tasks
  BY <1>1, <1>5, <1>6, <1>8, TasksJoin
<1> QED
  BY <1>2, <1>3, <1>4, <1>5, <1>7, <1>9

\* A few steps in a row are something to do.
LEMMA TaskTuples ==
    /\ \A a, b \in Steps : <<a, b>> \in Tasks
    /\ \A a, b, c \in Steps : <<a, b, c>> \in Tasks
    /\ \A a, b, c, d \in Steps : <<a, b, c, d>> \in Tasks
    /\ \A a, b, c, d, e \in Steps : <<a, b, c, d, e>> \in Tasks
<1>0. Tasks \subseteq Seq(Steps)
  BY DEF Tasks
<1>1. ASSUME NEW a \in Steps, NEW b \in Steps
      PROVE  <<a, b>> \in Tasks
  <2>1. <<a>> \in Tasks /\ <<b>> \in Tasks
    BY TaskOne
  <2>2. <<a>> \o <<b>> \in Tasks
    BY <1>0, <2>1, TasksJoin
  <2>3. <<a, b>> = <<a>> \o <<b>>
    BY Tuples
  <2> QED
    BY <2>2, <2>3, Zenon
<1>2. ASSUME NEW a \in Steps, NEW b \in Steps, NEW c \in Steps
      PROVE  <<a, b, c>> \in Tasks
  <2>1. <<a>> \in Tasks /\ <<b, c>> \in Tasks
    BY <1>1, TaskOne
  <2>2. <<a>> \o <<b, c>> \in Tasks
    BY <1>0, <2>1, TasksJoin
  <2>3. <<a, b, c>> = <<a>> \o <<b, c>>
    BY Tuples
  <2> QED
    BY <2>2, <2>3, Zenon
<1>3. ASSUME NEW a \in Steps, NEW b \in Steps, NEW c \in Steps, NEW d \in Steps
      PROVE  <<a, b, c, d>> \in Tasks
  <2>1. <<a>> \in Tasks /\ <<b, c, d>> \in Tasks
    BY <1>2, TaskOne
  <2>2. <<a>> \o <<b, c, d>> \in Tasks
    BY <1>0, <2>1, TasksJoin
  <2>3. <<a, b, c, d>> = <<a>> \o <<b, c, d>>
    BY Tuples
  <2> QED
    BY <2>2, <2>3, Zenon
<1>4. ASSUME NEW a \in Steps, NEW b \in Steps, NEW c \in Steps, NEW d \in Steps, NEW e \in Steps
      PROVE  <<a, b, c, d, e>> \in Tasks
  <2>1. <<a>> \in Tasks /\ <<b, c, d, e>> \in Tasks
    BY <1>3, TaskOne
  <2>2. <<a>> \o <<b, c, d, e>> \in Tasks
    BY <1>0, <2>1, TasksJoin
  <2>3. <<a, b, c, d, e>> = <<a>> \o <<b, c, d, e>>
    BY Tuples
  <2> QED
    BY <2>2, <2>3, Zenon
<1> QED
  BY <1>1, <1>2, <1>3, <1>4

\* h5::fill_value has steps.
LEMMA FillValueTyped ==
    ASSUME NEW t \in Threads
    PROVE  FillValue(t) \in Tasks
<1>0. Tasks \subseteq Seq(Steps)
  BY DEF Tasks
<1>1. Temp(t) \in Places /\ Raw(t) \in Places
  BY ReachInPlaces
<1>2. \A x \in Places : /\ Closing(x) \in Steps /\ Retaining(x) \in Steps /\ Creating(x) \in Steps
                        /\ Typing(x) \in Steps /\ Abandoning(x, 1) \in Steps
  <2>1. 1 \in Nat
    OBVIOUS
  <2> QED
    BY <2>1, StepsTyped DEF Closing, Retaining, Creating, Typing
<1>3. PropertyCtor(t) \in Tasks
  <2>1. <<Creating(Temp(t))>> \in Tasks
    BY <1>1, <1>2, TaskOne
  <2> QED
    BY <1>0, <2>1, TasksJoin DEF PropertyCtor
<1>4. PropertyDtor(t) \in Tasks
  BY HandlersTyped
<1>5. /\ <<Typing(Raw(t))>> \in Tasks /\ <<Retaining(Raw(t))>> \in Tasks
      /\ <<Closing(Raw(t))>> \in Tasks /\ <<Closing(Raw(t)), Abandoning(Raw(t), 1)>> \in Tasks
  BY <1>1, <1>2, TaskOne, TaskTuples
<1>6. UnderLock(<<Retaining(Raw(t))>>) \in Tasks /\ UnderLock(<<Closing(Raw(t))>>) \in Tasks
  BY <1>0, <1>5, TasksJoin
<1>7. <<Typing(Raw(t))>> \o UnderLock(<<Retaining(Raw(t))>>) \in Tasks
  BY <1>0, <1>5, <1>6, TasksJoin
<1>8. <<Typing(Raw(t))>> \o UnderLock(<<Retaining(Raw(t))>>) \o <<Retaining(Raw(t))>> \in Tasks
  BY <1>0, <1>5, <1>7, TasksJoin
<1>9. <<Typing(Raw(t))>> \o UnderLock(<<Retaining(Raw(t))>>) \o <<Retaining(Raw(t))>>
          \o PropertyCtor(t) \in Tasks
  BY <1>0, <1>3, <1>8, TasksJoin
<1>10. <<Typing(Raw(t))>> \o UnderLock(<<Retaining(Raw(t))>>) \o <<Retaining(Raw(t))>>
          \o PropertyCtor(t) \o UnderLock(<<Closing(Raw(t))>>) \in Tasks
  BY <1>0, <1>6, <1>9, TasksJoin
<1>11. <<Typing(Raw(t))>> \o UnderLock(<<Retaining(Raw(t))>>) \o <<Retaining(Raw(t))>>
          \o PropertyCtor(t) \o UnderLock(<<Closing(Raw(t))>>)
          \o <<Closing(Raw(t)), Abandoning(Raw(t), 1)>> \in Tasks
  BY <1>0, <1>5, <1>10, TasksJoin
<1> QED
  BY <1>0, <1>4, <1>11, TasksJoin DEF FillValue

\* No operation is without steps.
LEMMA OperationsTyped ==
    ASSUME NEW t \in Threads, NEW p \in VariablesOf(t), NEW q \in Reach(t)
    PROVE  /\ Convert(t, p) \in Tasks /\ Chain(t, p, q) \in Tasks /\ Open(t, p, q) \in Tasks
           /\ \A resolved \in Resolutions(p) :
                 Write(t, p, q, resolved) \in Tasks /\ Read(t, p, q, resolved) \in Tasks
<1>0. Tasks \subseteq Seq(Steps)
  BY DEF Tasks
<1>1. Temp(t) \in Places /\ Raw(t) \in Places /\ p \in Places /\ q \in Places
  BY ReachInPlaces
<1>2. \A x, y \in Places : /\ Closing(x) \in Steps /\ Retaining(x) \in Steps /\ Creating(x) \in Steps
                           /\ Typing(x) \in Steps /\ Setting(x) \in Steps
                           /\ Copying(x, y) \in Steps /\ Opening(x, y) \in Steps
                           /\ Getting(x, y) \in Steps /\ Describing(x) \in Steps
                           /\ Caching(x) \in Steps /\ Transferring(x) \in Steps
                           /\ Taking(x, y) \in Steps /\ Dropping(x) \in Steps
                           /\ Abandoning(x, 1) \in Steps
  <2>1. 1 \in Nat
    OBVIOUS
  <2>2. \A x \in Places : HasPipeline(x) \in BOOLEAN
    BY DEF HasPipeline
  <2> QED
    BY <2>1, <2>2, StepsTyped
       DEF Closing, Retaining, Creating, Typing, Setting, Copying, Opening, Getting, Describing,
           Caching, Transferring
<1>3. PropertyCtor(t) \in Tasks
  <2>1. <<Creating(Temp(t))>> \in Tasks
    BY <1>1, <1>2, TaskOne
  <2> QED
    BY <1>0, <2>1, TasksJoin DEF PropertyCtor
<1>4. PropertyDtor(t) \in Tasks
  BY HandlersTyped
<1>5. \A x \in Places : CopyImpl(x) \in Tasks
  <2>1. \A x \in Places : <<Setting(x)>> \in Tasks
    BY <1>2, TaskOne
  <2> QED
    BY <1>0, <2>1, TasksJoin DEF CopyImpl
<1>6. Convert(t, p) \in Tasks
  <2>1. <<Retaining(Temp(t)), Taking(p, Temp(t))>> \in Tasks
    BY <1>1, <1>2, TaskTuples
  <2>2. CopyImpl(Temp(t)) \o <<Retaining(Temp(t)), Taking(p, Temp(t))>> \in Tasks
    BY <1>0, <1>1, <1>5, <2>1, TasksJoin
  <2>3. UnderLock(CopyImpl(Temp(t)) \o <<Retaining(Temp(t)), Taking(p, Temp(t))>>) \in Tasks
    BY <1>0, <2>2, TasksJoin
  <2>4. PropertyCtor(t) \o UnderLock(CopyImpl(Temp(t)) \o <<Retaining(Temp(t)), Taking(p, Temp(t))>>)
            \in Tasks
    BY <1>0, <1>3, <2>3, TasksJoin
  <2> QED
    BY <1>0, <1>4, <2>4, TasksJoin DEF Convert
<1>7. Chain(t, p, q) \in Tasks
  <2> DEFINE middle == <<Copying(Raw(t), q)>> \o CopyImpl(Raw(t))
                         \o <<Taking(p, Raw(t)), Dropping(Raw(t))>>
  <2>1. <<Copying(Raw(t), q)>> \in Tasks /\ <<Taking(p, Raw(t)), Dropping(Raw(t))>> \in Tasks
    BY <1>1, <1>2, TaskOne, TaskTuples
  <2>2. <<Copying(Raw(t), q)>> \o CopyImpl(Raw(t)) \in Tasks
    BY <1>0, <1>1, <1>5, <2>1, TasksJoin
  <2>3. middle \in Tasks
    BY <1>0, <2>1, <2>2, TasksJoin
  <2>4. PropertyCtor(t) \o UnderLock(middle) \o PropertyDtor(t) \in Tasks
    <3> HIDE DEF middle
    <3>1. UnderLock(middle) \in Tasks
      BY <1>0, <2>3, TasksJoin
    <3>2. PropertyCtor(t) \o UnderLock(middle) \in Tasks
      BY <1>0, <1>3, <3>1, TasksJoin
    <3> QED
      BY <1>0, <1>4, <3>2, TasksJoin
  <2> QED
    BY <2>4 DEF Chain
<1>9. Open(t, p, q) \in Tasks
  BY <1>1, <1>2, TaskTuples DEF Open
<1>10. \A resolved \in Resolutions(p) : resolved \in Seq(Steps)
  <2>1. <<Describing(p)>> \in Tasks
    BY <1>1, <1>2, TaskOne
  <2>2. <<>> \in Seq(Steps)
    OBVIOUS
  <2> QED
    BY <1>0, <2>1, <2>2 DEF Resolutions
<1>11. ASSUME NEW resolved \in Resolutions(p)
       PROVE  Write(t, p, q, resolved) \in Tasks
  <2>1. <<Getting(Raw(t), p), Closing(Raw(t)), Dropping(Raw(t))>> \in Tasks
    BY <1>1, <1>2, TaskTuples
  <2>2. <<Transferring(p)>> \in Tasks
    BY <1>1, <1>2, TaskOne
  <2>3. Open(t, p, q) \o <<Getting(Raw(t), p), Closing(Raw(t)), Dropping(Raw(t))>> \in Tasks
    BY <1>0, <1>9, <2>1, TasksJoin
  <2>4. Open(t, p, q) \o <<Getting(Raw(t), p), Closing(Raw(t)), Dropping(Raw(t))>>
            \o resolved \in Tasks
    BY <1>0, <1>10, <2>3, TasksJoin
  <2>5. Open(t, p, q) \o <<Getting(Raw(t), p), Closing(Raw(t)), Dropping(Raw(t))>>
            \o resolved \o <<Transferring(p)>> \in Tasks
    BY <1>0, <2>2, <2>4, TasksJoin
  <2> QED
    BY <1>0, <2>5, TasksJoin DEF Write
<1>12. ASSUME NEW resolved \in Resolutions(p)
       PROVE  Read(t, p, q, resolved) \in Tasks
  <2> DEFINE body == Open(t, p, q) \o resolved
                         \o <<Getting(Raw(t), p), Closing(Raw(t)), Dropping(Raw(t)), Transferring(p)>>
  <2>1. <<Closing(p)>> \in Tasks /\ <<Dropping(p)>> \in Tasks
    BY <1>1, <1>2, TaskOne
  <2>2. UnderLock(<<Closing(p)>>) \in Tasks
    BY <1>0, <2>1, TasksJoin
  <2>3. body \in Tasks
    <3>1. <<Getting(Raw(t), p), Closing(Raw(t)), Dropping(Raw(t)), Transferring(p)>> \in Tasks
      BY <1>1, <1>2, TaskTuples
    <3>2. Open(t, p, q) \o resolved \in Tasks
      BY <1>0, <1>9, <1>10, TasksJoin
    <3> QED
      BY <1>0, <3>1, <3>2, TasksJoin
  <2> HIDE DEF body
  <2>4. body \o UnderLock(<<Closing(p)>>) \in Tasks
    BY <1>0, <2>2, <2>3, TasksJoin
  <2>5. body \o UnderLock(<<Closing(p)>>) \o <<Dropping(p)>> \in Tasks
    BY <1>0, <2>1, <2>4, TasksJoin
  <2> QED
    BY <1>0, <2>5, TasksJoin DEF Read, body
<1> QED
  BY <1>6, <1>7, <1>9, <1>11, <1>12

\* An operation some calls of which end in an exception, and its handler.
LEMMA HandledBegins ==
    ASSUME LockInv, HandlesType, NEW W, Accounted(W), NEW t \in Threads,
           NEW name, NEW steps \in Tasks, NEW within \in Seq(Steps), NEW after \in Seq(Steps),
           Guarded(t, name, steps, within, after), NEW E, Vacant(t, E),
           NEW m, NEW n, NEW D, Handled(t, Caught(t, m, n, D), within, after),
           \A w \in Tidy(t, -1, -1) : Without(t, E, w) =>
               \E b \in Ends(t) :
                   Outline(t, Account(0, w, NoTwin), steps, b, Caught(t, m, n, D))
    PROVE  HandlesType' /\ (\E Z \in Weights : Accounted(Z))'
<1>1. Caught(t, m, n, D) \in SUBSET Accounts /\ steps # <<>>
  BY DEF Caught, Tasks
<1> QED
  BY <1>1, BeginKeeps

\* Property expressions, fill values, opened datasets and the gateways.
LEMMA OperationsKeep ==
    ASSUME LockInv, HandlesType, NEW W, Accounted(W), NEW t \in Threads,
           \/ ConvertProperty(t) \/ ChainProperty(t) \/ FillProperty(t)
           \/ OpenDataset(t) \/ Gateway(t)
    PROVE  HandlesType' /\ (\E Z \in Weights : Accounted(Z))'
<1>t. NoTwin \in Places \X Places /\ \A w \in Tidy(t, -1, -1) : w \in Weights
  BY ReachInPlaces DEF Tidy
<1>v. ListsOf(t) \subseteq VariablesOf(t) /\ DatasetsOf(t) \subseteq VariablesOf(t)
  BY DEF VariablesOf
<1>r. VariablesOf(t) \subseteq Reach(t) /\ SharedList \in Reach(t)
  BY ReachInPlaces DEF Reach, Shared
<1>h. /\ PropertyDtor(t) \in Seq(Steps) /\ <<Abandoning(Raw(t), 1)>> \in Seq(Steps)
      /\ PropertyDtor(t) \o <<Abandoning(Raw(t), 1)>> \in Seq(Steps)
      /\ PropertyDtor(t) \o UnderLock(<<Closing(Raw(t))>>) \o <<Abandoning(Raw(t), 2)>> \in Seq(Steps)
      /\ \A p \in VariablesOf(t) : UnderLock(<<Closing(p)>>) \o <<Dropping(p)>> \in Seq(Steps)
      /\ <<>> \in Seq(Steps)
  <2>1. Tasks \subseteq Seq(Steps) /\ <<>> \in Seq(Steps)
    BY DEF Tasks
  <2>2. 1 \in 1 .. 2
    OBVIOUS
  <2>3. PropertyDtor(t) \in Tasks /\ <<Abandoning(Raw(t), 1)>> \in Tasks
    BY <2>2, HandlersTyped
  <2>4. PropertyDtor(t) \o <<Abandoning(Raw(t), 1)>> \in Tasks
    BY HandlersTyped
  <2>5. PropertyDtor(t) \o UnderLock(<<Closing(Raw(t))>>) \o <<Abandoning(Raw(t), 2)>> \in Tasks
    BY HandlersTyped
  <2>6. \A p \in VariablesOf(t) : UnderLock(<<Closing(p)>>) \o <<Dropping(p)>> \in Tasks
    BY HandlersTyped
  <2> QED
    BY <2>1, <2>3, <2>4, <2>5, <2>6, Zenon
<1>1. CASE ConvertProperty(t)
  <2>1. PICK p \in ListsOf(t) :
           Empty(p) /\ Guarded(t, "property", Convert(t, p), <<>>, PropertyDtor(t))
    BY <1>1 DEF ConvertProperty
  <2>2. p \in VariablesOf(t) /\ Vacant(t, {p})
    BY <1>v, <2>1, VacantOne
  <2>3. ASSUME NEW w \in Tidy(t, -1, -1), Without(t, {p}, w)
        PROVE  \E b \in Ends(t) :
                   Outline(t, Account(0, w, NoTwin), Convert(t, p), b, Caught(t, 1, -1, {1, 2}))
    <3>1. w[p] = -1
      BY <2>2, <2>3, VacantOne
    <3> QED
      BY <1>t, <2>2, <3>1, ConvertOutline
  <2>4. Convert(t, p) \in Tasks
    BY <1>r, <2>2, OperationsTyped
  <2> QED
    BY <1>h, <2>1, <2>2, <2>3, <2>4, ConvertHandled, HandledBegins
<1>2. CASE ChainProperty(t)
  <2>1. PICK p \in ListsOf(t) :
           Empty(p) /\ Guarded(t, "property", Chain(t, p, SharedList), <<>>,
                               PropertyDtor(t) \o <<Abandoning(Raw(t), 1)>>)
    BY <1>2 DEF ChainProperty
  <2>2. p \in VariablesOf(t) /\ Vacant(t, {p})
    BY <1>v, <2>1, VacantOne
  <2>3. ASSUME NEW w \in Tidy(t, -1, -1), Without(t, {p}, w)
        PROVE  \E b \in Ends(t) : Outline(t, Account(0, w, NoTwin), Chain(t, p, SharedList), b,
                                          Caught(t, 1, 1, {1, 2}))
    <3>1. w[p] = -1
      BY <2>2, <2>3, VacantOne
    <3> QED
      BY <1>r, <1>t, <2>2, <3>1, ChainOutline
  <2>4. Chain(t, p, SharedList) \in Tasks
    BY <1>r, <2>2, OperationsTyped
  <2> QED
    BY <1>h, <2>1, <2>2, <2>3, <2>4, ChainHandled, HandledBegins
<1>3. CASE FillProperty(t)
  <2>1. Vacant(t, {})
    BY DEF Vacant
  <2>2. \A w \in Tidy(t, -1, -1) :
           \E b \in Ends(t) :
               Outline(t, Account(0, w, NoTwin), FillValue(t), b, Caught(t, 1, 3, {1}))
    BY <1>t, FillValueOutline
  <2>3. FillValue(t) \in Tasks
    BY FillValueTyped
  <2> QED
    BY <1>3, <1>h, <2>1, <2>2, <2>3, FillValueHandled, HandledBegins DEF FillProperty
<1>4. CASE OpenDataset(t)
  <2>1. PICK p \in DatasetsOf(t), q \in ListsOf(t) \cup {SharedList} :
           Empty(p) /\ Guarded(t, "open", Open(t, p, q), <<>>, <<Abandoning(Raw(t), 1)>>)
    BY <1>4 DEF OpenDataset
  <2>2. p \in VariablesOf(t) /\ Vacant(t, {p}) /\ q \in Reach(t)
    BY <1>r, <1>v, <2>1, VacantOne
  <2>3. ASSUME NEW w \in Tidy(t, -1, -1), Without(t, {p}, w)
        PROVE  \E b \in Ends(t) :
                   Outline(t, Account(0, w, NoTwin), Open(t, p, q), b, Caught(t, -1, 1, {0}))
    <3>1. w[p] = -1
      BY <2>2, <2>3, VacantOne
    <3>0. 0 \in 0 .. 1
      OBVIOUS
    <3>2. Outline(t, Account(0, w, NoTwin), Open(t, p, q), Account(0, Full(w, p), NoTwin),
                  Caught(t, -1, 1, {0}))
      BY <1>t, <2>2, <3>0, <3>1, OpenDatasetOutline
    <3>3. Account(0, Full(w, p), NoTwin) \in Ends(t)
      <4>1. -1 \in -1 .. 3
        OBVIOUS
      <4>2. Full(w, p) \in Tidy(t, -1, -1)
        BY <2>2, <4>1, WithinUpdate
      <4> QED
        BY <1>t, <4>2, EndsWhenTidy
    <3> QED
      BY <3>2, <3>3
  <2>4. Open(t, p, q) \in Tasks
    BY <2>2, OperationsTyped
  <2> QED
    BY <1>h, <2>1, <2>2, <2>3, <2>4, OpenDatasetHandled, HandledBegins
<1>5. CASE Gateway(t)
  <2>p. PICK p \in DatasetsOf(t), q \in ListsOf(t) \cup {SharedList} :
           \E resolved \in Resolutions(p) :
           \E steps \in {Write(t, p, q, resolved), Read(t, p, q, resolved)} :
              /\ Empty(p)
              /\ Guarded(t, "gateway", steps, UnderLock(<<Closing(p)>>) \o <<Dropping(p)>>,
                         <<Abandoning(Raw(t), 1)>>)
    BY <1>5 DEF Gateway
  <2>r. PICK resolved \in Resolutions(p) :
           \E steps \in {Write(t, p, q, resolved), Read(t, p, q, resolved)} :
              /\ Empty(p)
              /\ Guarded(t, "gateway", steps, UnderLock(<<Closing(p)>>) \o <<Dropping(p)>>,
                         <<Abandoning(Raw(t), 1)>>)
    BY <2>p
  <2>1. PICK steps \in {Write(t, p, q, resolved), Read(t, p, q, resolved)} :
              /\ Empty(p)
              /\ Guarded(t, "gateway", steps, UnderLock(<<Closing(p)>>) \o <<Dropping(p)>>,
                         <<Abandoning(Raw(t), 1)>>)
    BY <2>r
  <2>2. p \in VariablesOf(t) /\ Vacant(t, {p}) /\ q \in Reach(t)
    BY <1>r, <1>v, <2>1, VacantOne
  <2>3. ASSUME NEW w \in Tidy(t, -1, -1), Without(t, {p}, w)
        PROVE  \E b \in Ends(t) :
                   Outline(t, Account(0, w, NoTwin), steps, b, Caught(t, -1, 1, {1}))
    <3>1. w[p] = -1
      BY <2>2, <2>3, VacantOne
    <3> QED
      BY <1>t, <2>2, <3>1, GatewayOutline
  <2>4. steps \in Tasks
    BY <2>2, OperationsTyped
  <2> QED
    BY <1>h, <2>1, <2>2, <2>3, <2>4, GatewayHandled, HandledBegins
<1> QED
  BY <1>1, <1>2, <1>3, <1>4, <1>5

(***************************************************************************)
(* The counts                                                              *)
(***************************************************************************)
\* Places that hold an id and stand for a reference to it are counted.
LEMMA ClaimsCover ==
    ASSUME NEW h, NEW W \in Weights, NEW i, NEW S \in SUBSET Places,
           \A p \in S : h[p] = i => W[p] >= 1
    PROVE  /\ IsFiniteSet({p \in S : h[p] = i}) /\ Cardinality({p \in S : h[p] = i}) \in Nat
           /\ Cardinality({p \in S : h[p] = i}) <= Cardinality(Claims(h, W, i))
           /\ (\A p \in Places : h[p] = i /\ W[p] >= 1 => p \in S /\ W[p] = 1)
                => Cardinality({p \in S : h[p] = i}) = Cardinality(Claims(h, W, i))
<1> DEFINE H == {p \in S : h[p] = i}
           f == [p \in H |-> <<p, 1>>]
<1>1. IsFiniteSet(H) /\ Cardinality(H) \in Nat
  BY PlacesFinite, FS_Subset, FS_CardinalityType
<1>2. f \in Injection(H, Claims(h, W, i))
  <2>1. \A p \in H : <<p, 1>> \in Claims(h, W, i)
    BY DEF Claims
  <2>2. f \in [H -> Claims(h, W, i)]
    BY <2>1
  <2>3. \A p, q \in H : f[p] = f[q] => p = q
    OBVIOUS
  <2> HIDE DEF f, H
  <2> QED
    BY <2>2, <2>3, Fun_IsInj
<1>3. /\ Cardinality(H) <= Cardinality(Claims(h, W, i))
      /\ Cardinality(H) = Cardinality(Claims(h, W, i)) <=> f \in Surjection(H, Claims(h, W, i))
  <2> HIDE DEF f, H
  <2> QED
    BY <1>2, ClaimsFinite, FS_Injection
<1>4. ASSUME \A p \in Places : h[p] = i /\ W[p] >= 1 => p \in S /\ W[p] = 1
      PROVE  f \in Surjection(H, Claims(h, W, i))
  <2>1. ASSUME NEW c \in Claims(h, W, i)
        PROVE  \E p \in H : f[p] = c
    <3>1. /\ c[1] \in Places /\ c[2] \in 1 .. 3 /\ c = <<c[1], c[2]>>
          /\ h[c[1]] = i /\ c[2] <= W[c[1]]
      BY DEF Claims
    <3>2. W[c[1]] \in -1 .. 3
      BY <3>1 DEF Weights
    <3>3. c[1] \in H /\ W[c[1]] = 1
      BY <1>4, <3>1, <3>2
    <3>4. c[2] = 1
      BY <3>1, <3>3
    <3>5. f[c[1]] = <<c[1], 1>>
      BY <3>3
    <3> QED
      BY <3>1, <3>3, <3>4, <3>5
  <2>2. f \in [H -> Claims(h, W, i)]
    BY <1>2, Fun_InjectionProperties
  <2> HIDE DEF f, H
  <2> QED
    BY <2>1, <2>2, Fun_IsSurj
<1> QED
  BY <1>1, <1>3, <1>4

\* The variables that are not in the hands of an operation stand for the
\* references they hold.
LEMMA SettledCounts ==
    ASSUME HandlesType, NEW W, Accounted(W), NEW i \in Ids
    PROVE  /\ Cardinality(Holders(i)) \in Nat
           /\ refs[i] >= Cardinality(Holders(i)) + strays[i]
           /\ (\A t \in Threads : Idle(t)) => refs[i] = Cardinality(Holders(i)) + strays[i]
<1>1. /\ W \in Weights /\ \A p \in Shared : W[p] = 1
      /\ \A p \in Places : W[p] = -1 => held[p] = None
      /\ refs[i] = Cardinality(Claims(held, W, i)) + strays[i] /\ strays[i] \in Nat
  BY DEF HandlesType, Accounted, Weighted, Balanced
<1>2. Settled \subseteq Places /\ Variables \subseteq Places /\ Shared \subseteq Places
  BY DEF Settled, Places
<1>3. \A p \in Variables : p[1] \in Threads /\ p \in VariablesOf(p[1])
  BY DEF Variables, VariablesOf, ListsOf, DatasetsOf
<1>4. ASSUME NEW p \in Settled, held[p] = i
      PROVE  W[p] >= 1
  <2>1. CASE p \in Shared
    <3>1. W[p] = 1
      BY <1>1, <2>1
    <3> QED
      BY <3>1
  <2>2. CASE p \in Variables /\ Idle(p[1])
    <3>1. W[p] \in {-1, 1}
      BY <1>3, <2>2, IdleWeights
    <3>2. W[p] # -1
      BY <1>1, <1>2, <1>4, NoneIsNoId
    <3> QED
      BY <3>1, <3>2
  <2> QED
    BY <2>1, <2>2 DEF Settled
<1>5. ASSUME \A t \in Threads : Idle(t), NEW p \in Places, W[p] >= 1
      PROVE  p \in Settled /\ W[p] = 1
  <2>1. CASE p \in Shared
    BY <1>1, <2>1 DEF Settled
  <2>2. CASE p \in Variables
    <3>1. W[p] \in {-1, 1} /\ Idle(p[1])
      BY <1>3, <1>5, <2>2, IdleWeights
    <3>2. W[p] # -1
      BY <1>5
    <3> QED
      BY <2>2, <3>1, <3>2 DEF Settled
  <2>3. CASE p \in Threads \X {"temp", "raw"}
    <3>1. p[1] \in Threads /\ (p = Temp(p[1]) \/ p = Raw(p[1]))
      BY <2>3 DEF Temp, Raw
    <3>2. W[p] = -1
      BY <1>5, <3>1, IdleWeights
    <3> QED
      BY <1>5, <3>2
  <2> QED
    BY <2>1, <2>2, <2>3 DEF Places
<1>6. /\ Cardinality(Holders(i)) \in Nat
      /\ Cardinality(Holders(i)) <= Cardinality(Claims(held, W, i))
      /\ (\A p \in Places : held[p] = i /\ W[p] >= 1 => p \in Settled /\ W[p] = 1)
            => Cardinality(Holders(i)) = Cardinality(Claims(held, W, i))
  BY <1>1, <1>2, <1>4, ClaimsCover DEF Holders
<1>7. Cardinality(Claims(held, W, i)) \in Nat
  BY ClaimsFinite
<1>8. refs[i] >= Cardinality(Holders(i)) + strays[i]
  BY <1>1, <1>6, <1>7
<1>9. ASSUME \A t \in Threads : Idle(t)
      PROVE  refs[i] = Cardinality(Holders(i)) + strays[i]
  <2>1. Cardinality(Holders(i)) = Cardinality(Claims(held, W, i))
    BY <1>5, <1>6, <1>9
  <2> QED
    BY <1>1, <2>1
<1> QED
  BY <1>6, <1>8, <1>9

\* A program starts with shared variables, and copies of them or none, that
\* stand for one reference each.
LEMMA HandlesInvInit == Init => HandlesType /\ \E W \in Weights : Accounted(W)
<1> SUFFICES ASSUME Init
             PROVE  HandlesType /\ \E Z \in Weights : Accounted(Z)
  OBVIOUS
<1> DEFINE W == [p \in Places |-> IF held[p] = None THEN -1 ELSE 1]
<1>1. held = [p \in Places |->
            IF p = SharedList \/ p[2] \in Given \cap Lists THEN 1
            ELSE IF p = SharedDataset \/ p[2] \in Given \cap Datasets THEN 2
            ELSE None]
  BY DEF Init
<1>2. /\ strays = [i \in Ids |-> 0] /\ todo = [t \in Threads |-> Nothing]
      /\ calls = 0 /\ faults = 0 /\ depth = [t \in Threads |-> 0]
      /\ refs = [i \in Ids |-> Cardinality({p \in Places : held[p] = i})]
  BY DEF Init, LockInit
<1>3. 1 \in Ids /\ 2 \in Ids /\ None # 1 /\ None # 2
  BY HandlesAssumption DEF Ids, None
<1>4. held \in [Places -> Ids \cup {None}]
  BY <1>1, <1>3
<1>5. HandlesType
  <2>1. Nothing \in Programs
    BY DEF Nothing, Programs
  <2>2. 0 \in 0 .. MaxCalls /\ 0 \in 0 .. MaxFaults
    BY HandlesAssumption
  <2> QED
    BY <1>2, <1>4, <2>1, <2>2 DEF HandlesType
<1>6. W \in Weights
  BY DEF Weights
<1>7. \A p \in Places : W[p] = IF held[p] = None THEN -1 ELSE 1
  OBVIOUS
<1> HIDE DEF W
<1>8. \A p \in Shared : p \in Places /\ W[p] = 1
  <2>1. ASSUME NEW p \in Shared
        PROVE  p \in Places /\ held[p] # None
    <3>1. p \in Places
      BY ReachInPlaces DEF Places
    <3>2. p = SharedList \/ p = SharedDataset
      BY DEF Shared
    <3> QED
      BY <1>1, <1>3, <3>1, <3>2
  <2> QED
    BY <1>7, <2>1
<1>9. Weighted(W)
  BY <1>6, <1>7, <1>8 DEF Weighted
<1>10. Balanced(W)
  <2>1. ASSUME NEW i \in Ids
        PROVE  refs[i] = Cardinality(Claims(held, W, i)) + strays[i]
    <3>1. \A p \in Places : held[p] = i => W[p] = 1 /\ W[p] >= 1
      BY <1>7, NoneIsNoId
    <3>2. Cardinality({p \in Places : held[p] = i}) = Cardinality(Claims(held, W, i))
      <4>1. \A p \in Places : held[p] = i => W[p] >= 1
        BY <3>1
      <4>2. \A p \in Places : held[p] = i /\ W[p] >= 1 => p \in Places /\ W[p] = 1
        BY <3>1
      <4>3. Places \in SUBSET Places
        OBVIOUS
      <4> QED
        BY <1>6, <4>1, <4>2, <4>3, ClaimsCover
    <3>3. strays[i] = 0 /\ Cardinality(Claims(held, W, i)) \in Nat
      BY <1>2, ClaimsFinite
    <3> QED
      BY <1>2, <3>2, <3>3
  <2> QED
    BY <2>1 DEF Balanced
<1>11. ASSUME NEW t \in Threads
       PROVE  \E a \in Accounts : Describes(t, a, W) /\ Sound(t, a)
  <2> DEFINE a == Account(0, W, NoTwin)
  <2>1. W \in Tidy(t, -1, -1)
    <3>1. ASSUME NEW p \in {Temp(t), Raw(t)}
          PROVE  W[p] = -1
      <4>1. p \in Places /\ p # SharedList /\ p # SharedDataset
        BY ReachInPlaces DEF Shared
      <4>2. p[2] \notin Lists /\ p[2] \notin Datasets
        BY HandlesAssumption DEF Temp, Raw
      <4> QED
        BY <1>1, <1>7, <4>1, <4>2
    <3>2. \A p \in VariablesOf(t) : W[p] \in {-1, 1}
      BY <1>7, ReachInPlaces
    <3> QED
      BY <1>6, <1>8, <3>1, <3>2 DEF Tidy
  <2>2. NoTwin \in Places \X Places /\ 0 \in 0 .. MaxDepth
    BY ReachInPlaces DEF MaxDepth
  <2>3. a \in Accounts /\ a.depth = 0 /\ a.weight = W /\ a.twin = NoTwin
    BY <1>6, <2>2, AccountFields
  <2>4. a \in Ends(t)
    BY <2>1, <2>2, EndsWhenTidy
  <2> HIDE DEF a
  <2>5. Describes(t, a, W)
    <3>1. NoTwin \in Reach(t) \X Reach(t) /\ NoTwin[1] = NoTwin[2]
      BY DEF NoTwin, Reach, Shared
    <3> QED
      BY <1>2, <2>3, <3>1 DEF Describes
  <2>6. Sound(t, a)
    <3>1. todo[t] = Nothing
      BY <1>2
    <3>2. Nothing.steps = <<>> /\ Nothing.within = <<>> /\ Nothing.after = <<>>
      BY DEF Nothing
    <3>3. Outline(t, a, <<>>, a, {})
      BY <2>3, OutlineNone
    <3>4. Handled(t, {}, <<>>, <<>>) /\ {} \in SUBSET Accounts
      BY DEF Handled
    <3> QED
      BY <2>4, <3>1, <3>2, <3>3, <3>4 DEF Sound, Idle
  <2> QED
    BY <2>3, <2>5, <2>6
<1>12. Accounted(W)
  BY <1>9, <1>10, <1>11 DEF Accounted
<1> QED
  BY <1>5, <1>6, <1>12

\* Every step of every thread keeps the counts.
LEMMA HandlesInvStep == HandlesInv /\ [Next]_vars => HandlesInv'
<1> SUFFICES ASSUME HandlesInv, [Next]_vars
             PROVE  HandlesInv'
  OBVIOUS
<1>1. LockInv' /\ LibraryInv'
  BY HandlesStep, LockInvStep, LibraryInvStep DEF HandlesInv
<1>2. LockInv /\ LibraryInv /\ HandlesType
  BY DEF HandlesInv
<1>3. PICK W \in Weights : Accounted(W)
  BY DEF HandlesInv
<1>4. ASSUME NEW t \in Threads, BeginOperation(t)
      PROVE  HandlesType' /\ (\E Z \in Weights : Accounted(Z))'
  BY <1>2, <1>3, <1>4, WrappersKeep, OperationsKeep DEF BeginOperation
<1>5. ASSUME NEW t \in Threads, DoStep(t)
      PROVE  HandlesType' /\ (\E Z \in Weights : Accounted(Z))'
  <2>1. CASE LockStep(t) \/ UnlockStep(t)
    BY <1>2, <1>3, <2>1, LockStepKeeps
  <2>2. CASE Take(t)
    BY <1>2, <1>3, <2>2, TakeKeeps
  <2>3. CASE Drop(t) \/ Abandon(t)
    BY <1>2, <1>3, <2>3, DropKeeps
  <2>4. CASE EnterLibrary(t)
    BY <1>2, <1>3, <2>4, EnterKeeps
  <2>5. CASE ReturnClose(t)
    BY <1>2, <1>3, <2>5, ReturnCloseKeeps
  <2>6. CASE ReturnRetain(t)
    BY <1>2, <1>3, <2>6, ReturnRetainKeeps
  <2>7. CASE ReturnCreate(t) \/ ReturnDerive(t)
    BY <1>2, <1>3, <2>7, ReturnOpenKeeps
  <2>8. CASE ReturnSet(t) \/ ReturnTransfer(t) \/ ReturnDescribe(t)
    BY <1>2, <1>3, <2>8, ReturnUseKeeps
  <2>9. CASE CallFails(t)
    BY <1>2, <1>3, <2>9, CallFailsKeeps
  <2> QED
    BY <1>5, <2>1, <2>2, <2>3, <2>4, <2>5, <2>6, <2>7, <2>8, <2>9 DEF DoStep
<1>6. ASSUME UNCHANGED vars
      PROVE  HandlesType' /\ (\E Z \in Weights : Accounted(Z))'
  <2>1. /\ held' = held /\ refs' = refs /\ strays' = strays /\ todo' = todo
        /\ calls' = calls /\ faults' = faults /\ depth' = depth
    BY <1>6 DEF vars, library, lockVars
  <2>2. HandlesType'
    BY <1>2, <2>1 DEF HandlesType
  <2>3. Accounted(W)'
    BY <1>3, <2>1 DEF Accounted, Weighted, Balanced, Describes, Sound, Idle
  <2> QED
    BY <1>3, <2>2, <2>3
<1>7. HandlesType' /\ (\E Z \in Weights : Accounted(Z))'
  BY <1>4, <1>5, <1>6 DEF Next
<1> QED
  BY <1>1, <1>7 DEF HandlesInv

\* In every state there is an account of the references, and what is left of
\* each operation, an exception included, leads to where it is settled.
THEOREM HandlesAccounted == Spec => []HandlesInv
<1>1. Init => HandlesInv
  BY LockInvInit, LibraryInvInit, HandlesInvInit DEF Init, HandlesInv
<1> QED
  BY <1>1, HandlesInvStep, PTL DEF Spec

\* The state has its type; a thread between two operations has no lock, and
\* its temporaries hold nothing.
THEOREM HandlesTypeCorrect == Spec => []TypeOK
<1>1. ASSUME HandlesInv
      PROVE  TypeOK
  <2>1. LockInv /\ LibraryInv /\ HandlesType
    BY <1>1 DEF HandlesInv
  <2>2. PICK W \in Weights : Accounted(W)
    BY <1>1 DEF HandlesInv
  <2>3. LockTypeOK /\ \A t \in Threads : depth[t] = Len(tops[t])
    BY <2>1 DEF LockInv
  <2>4. depth \in [Threads -> 0 .. MaxDepth]
    <3>1. ASSUME NEW t \in Threads
          PROVE  depth[t] \in 0 .. MaxDepth
      <4>1. PICK a \in Accounts : Describes(t, a, W)
        BY <2>2 DEF Accounted
      <4> QED
        BY <4>1, AccountParts DEF Describes
    <3> QED
      BY <2>3, <3>1 DEF LockTypeOK
  <2>5. ASSUME NEW t \in Threads, Idle(t)
        PROVE  depth[t] = 0 /\ tops[t] = <<>> /\ Empty(Temp(t)) /\ Empty(Raw(t))
    <3>1. depth[t] = 0 /\ W[Temp(t)] = -1 /\ W[Raw(t)] = -1
      BY <2>2, <2>5, IdleWeights
    <3>2. tops[t] = <<>>
      <4>1. tops[t] \in Seq(BOOLEAN) /\ Len(tops[t]) = 0
        BY <2>3, <3>1 DEF LockTypeOK
      <4> QED
        BY <4>1, EmptySeq
    <3>3. Temp(t) \in Places /\ Raw(t) \in Places
      BY ReachInPlaces
    <3> QED
      BY <2>2, <3>1, <3>2, <3>3 DEF Accounted, Weighted, Empty
  <2> QED
    BY <2>1, <2>3, <2>4, <2>5 DEF TypeOK, LibraryInv, HandlesType
<1> QED
  BY <1>1, HandlesAccounted, PTL

\* No id is closed under a variable that holds it, whatever the other threads
\* copy, assign, convert, open or destroy meanwhile, and whichever calls fail.
THEOREM HandlesHeldAreOpen == Spec => []HeldIsOpen
<1>1. HandlesInv => HeldIsOpen
  BY SettledCounts DEF HandlesInv, HeldIsOpen
<1> QED
  BY <1>1, HandlesAccounted, PTL

\* Between the operations every reference is one of a variable, or of an id
\* that is known to be left open.
THEOREM HandlesLeakNothing == Spec => []NothingLeaks
<1>1. HandlesInv => NothingLeaks
  BY SettledCounts DEF HandlesInv, NothingLeaks
<1> QED
  BY <1>1, HandlesAccounted, PTL

=============================================================================
