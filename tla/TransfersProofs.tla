--------------------------- MODULE TransfersProofs ---------------------------
(***************************************************************************)
(* Proofs about Transfers, for every finite set of accounts, every set of  *)
(* requests, resets and amounts and every choice of faults.  The inductive *)
(* invariant is the conjunction of the invariants the runs check;          *)
(* InFlightAccounts is the part that makes the others inductive.           *)
(***************************************************************************)
EXTENDS Transfers, FiniteSetTheorems, TLAPS

-----------------------------------------------------------------------------
(* Sums over finite sets: what SumFunctionOnSet computes for every finite set *)

\* The member the fold takes off next.
First(s) == CHOOSE x \in s : TRUE

\* g is the function by which MapThenFoldSet sums f over the subsets of S.
Unfold(g, f, s) == IF s = {} THEN 0 ELSE f[First(s)] + g[s \ {First(s)}]
Sums(g, f, S) == g = [s \in SUBSET S |-> Unfold(g, f, s)]

\* Induction over the subsets of a finite set: a set of counterexamples has a
\* smallest one.
LEMMA MinimalSubset ==
  ASSUME NEW S, IsFiniteSet(S), NEW B \in SUBSET (SUBSET S), B # {}
  PROVE  \E m \in B : \A s \in SUBSET m : s # m => s \notin B
<1> DEFINE R == StrictSubsetOrdering(S)
<1>1. IsWellFoundedOn(R, SUBSET S)
  BY FS_StrictSubsetOrderingWellFounded, FS_FiniteSubsetsOfFinite
<1>2. PICK m \in B : \A s \in B : <<s, m>> \notin R
  <2> HIDE DEF R
  <2> QED BY <1>1, WFMin
<1>3. ASSUME NEW s \in SUBSET m, s # m, s \in B PROVE FALSE
  <2>1. <<s, m>> \in R
    BY <1>3 DEF StrictSubsetOrdering
  <2> QED BY <1>2, <1>3, <2>1
<1> QED BY <1>3

LEMMA FirstIsMember == ASSUME NEW s, s # {} PROVE First(s) \in s
  BY DEF First

LEMMA SumIsUnfolded ==
  ASSUME NEW f, NEW S
  PROVE  SumFunctionOnSet(f, S) = (CHOOSE g : Sums(g, f, S))[S]
BY DEF SumFunctionOnSet, FoldFunctionOnSet, MapThenFoldSet, Sums, Unfold, First

\* Two such functions agree where both are defined, ...
LEMMA SumsAgree ==
  ASSUME NEW f, NEW T, NEW S \in SUBSET T, IsFiniteSet(S), NEW g, NEW h, Sums(g, f, S), Sums(h, f, T)
  PROVE  g[S] = h[S]
<1> DEFINE B == {s \in SUBSET S : g[s] # h[s]}
<1>1. SUFFICES ASSUME B # {} PROVE FALSE
  OBVIOUS
<1>2. PICK m \in B : \A s \in SUBSET m : s # m => s \notin B
  <2>1. B \in SUBSET (SUBSET S)
    OBVIOUS
  <2> HIDE DEF B
  <2> QED BY <1>1, <2>1, MinimalSubset
<1>3. g[m] = Unfold(g, f, m) /\ h[m] = Unfold(h, f, m)
  BY DEF Sums
<1>4. CASE m = {}
  BY <1>3, <1>4 DEF Unfold
<1>5. CASE m # {}
  <2> DEFINE t == m \ {First(m)}
  <2>1. t \in SUBSET m /\ t # m
    BY <1>5, FirstIsMember
  <2>2. g[t] = h[t]
    BY <1>2, <2>1
  <2> QED BY <1>3, <1>5, <2>2 DEF Unfold
<1> QED BY <1>4, <1>5

\* ... and there is one, so the recursive definition defines something.
LEMMA SumsExist ==
  ASSUME NEW f, NEW S, IsFiniteSet(S)
  PROVE  \E g : Sums(g, f, S)
<1> DEFINE B == {s \in SUBSET S : ~ \E g : Sums(g, f, s)}
<1>1. SUFFICES ASSUME B # {} PROVE FALSE
  OBVIOUS
<1>2. PICK m \in B : \A s \in SUBSET m : s # m => s \notin B
  <2>1. B \in SUBSET (SUBSET S)
    OBVIOUS
  <2> HIDE DEF B
  <2> QED BY <1>1, <2>1, MinimalSubset
<1> DEFINE G(s) == CHOOSE g : Sums(g, f, s)
           k == [s \in SUBSET m |-> G(s)[s]]
           h == [s \in SUBSET m |-> Unfold(k, f, s)]
<1>3. ASSUME NEW s \in SUBSET m, s # m PROVE Sums(G(s), f, s)
  <2>1. \E g : Sums(g, f, s)
    BY <1>2, <1>3
  <2> QED BY <2>1, Zenon
<1>4. ASSUME NEW s \in SUBSET m, s # m PROVE h[s] = k[s]
  <2>1. k[s] = Unfold(G(s), f, s)
    <3>1. Sums(G(s), f, s)
      BY <1>3, <1>4
    <3> HIDE DEF G
    <3>2. G(s)[s] = Unfold(G(s), f, s)
      BY <3>1 DEF Sums
    <3> QED BY <3>2
  <2>2. CASE s = {}
    BY <2>1, <2>2 DEF Unfold
  <2>3. CASE s # {}
    <3> DEFINE t == s \ {First(s)}
    <3>1. t \in SUBSET m /\ t # m /\ t \in SUBSET s
      BY <1>4, <2>3, FirstIsMember
    <3>2. IsFiniteSet(t)
      BY <1>2, FS_Subset
    <3>3. Sums(G(s), f, s) /\ Sums(G(t), f, t)
      BY <1>3, <1>4, <3>1
    <3> HIDE DEF G, t
    <3>4. G(s)[t] = G(t)[t]
      BY <3>1, <3>2, <3>3, SumsAgree
    <3>5. k[t] = G(s)[t]
      BY <3>1, <3>4
    <3> QED BY <2>1, <2>3, <3>5 DEF Unfold, t
  <2> QED BY <2>2, <2>3
<1>5. ASSUME NEW s \in SUBSET m PROVE Unfold(k, f, s) = Unfold(h, f, s)
  <2>1. CASE s = {}
    BY <2>1 DEF Unfold
  <2>2. CASE s # {}
    <3> DEFINE t == s \ {First(s)}
    <3>1. t \in SUBSET m /\ t # m
      BY <2>2, FirstIsMember
    <3>2. h[t] = k[t]
      BY <1>4, <3>1
    <3> HIDE DEF h, k
    <3> QED BY <2>2, <3>2 DEF Unfold
  <2> QED BY <2>1, <2>2
<1>6. Sums(h, f, m)
  <2>1. h = [s \in SUBSET m |-> Unfold(h, f, s)]
    <3> HIDE DEF k
    <3> QED BY <1>5
  <2> HIDE DEF h
  <2> QED BY <2>1 DEF Sums
<1> QED BY <1>2, <1>6

\* The community module's sum, one element at a time.
LEMMA SumValue ==
  ASSUME NEW f, NEW S, IsFiniteSet(S)
  PROVE  /\ S = {} => SumFunctionOnSet(f, S) = 0
         /\ S # {} => SumFunctionOnSet(f, S) = f[First(S)] + SumFunctionOnSet(f, S \ {First(S)})
<1> DEFINE t == S \ {First(S)}
<1>1. ASSUME NEW s, IsFiniteSet(s)
      PROVE  \E g : Sums(g, f, s) /\ SumFunctionOnSet(f, s) = g[s]
  <2>1. \E g : Sums(g, f, s)
    BY <1>1, SumsExist
  <2>2. Sums(CHOOSE g : Sums(g, f, s), f, s)
    BY <2>1, Zenon
  <2> QED BY <2>2, SumIsUnfolded
<1>2. PICK g : Sums(g, f, S) /\ SumFunctionOnSet(f, S) = g[S]
  BY <1>1
<1>3. IsFiniteSet(t) /\ t \in SUBSET S
  BY FS_RemoveElement
<1>4. PICK h : Sums(h, f, t) /\ SumFunctionOnSet(f, t) = h[t]
  BY <1>1, <1>3
<1>5. g[S] = Unfold(g, f, S)
  BY <1>2 DEF Sums
<1>6. h[t] = g[t]
  <2> HIDE DEF t
  <2> QED BY <1>2, <1>3, <1>4, SumsAgree
<1> QED BY <1>2, <1>4, <1>5, <1>6 DEF Unfold

LEMMA SumType ==
  ASSUME NEW S, IsFiniteSet(S), NEW f, \A x \in S : f[x] \in Int
  PROVE  SumFunctionOnSet(f, S) \in Int
<1> DEFINE B == {s \in SUBSET S : SumFunctionOnSet(f, s) \notin Int}
<1>1. SUFFICES ASSUME B # {} PROVE FALSE
  OBVIOUS
<1>2. PICK m \in B : \A s \in SUBSET m : s # m => s \notin B
  <2>1. B \in SUBSET (SUBSET S)
    OBVIOUS
  <2> HIDE DEF B
  <2> QED BY <1>1, <2>1, MinimalSubset
<1>3. m \in SUBSET S /\ IsFiniteSet(m) /\ SumFunctionOnSet(f, m) \notin Int
  BY <1>2, FS_Subset
<1>4. m # {}
  BY <1>3, SumValue
<1>5. First(m) \in m
  BY <1>4, FirstIsMember
<1>6. SumFunctionOnSet(f, m \ {First(m)}) \in Int
  BY <1>2, <1>3, <1>5
<1>7. SumFunctionOnSet(f, m) = f[First(m)] + SumFunctionOnSet(f, m \ {First(m)})
  BY <1>3, <1>4, SumValue
<1> QED BY <1>3, <1>5, <1>6, <1>7

\* The order does not matter: any member can be taken off.
LEMMA SumRemove ==
  ASSUME NEW S, IsFiniteSet(S), NEW f, \A x \in S : f[x] \in Int, NEW y \in S
  PROVE  SumFunctionOnSet(f, S) = f[y] + SumFunctionOnSet(f, S \ {y})
<1> DEFINE Sm(s) == SumFunctionOnSet(f, s)
           B == {s \in SUBSET S : \E x \in s : Sm(s) # f[x] + Sm(s \ {x})}
<1>1. SUFFICES ASSUME B # {} PROVE FALSE
  OBVIOUS
<1>2. PICK m \in B : \A s \in SUBSET m : s # m => s \notin B
  <2>1. B \in SUBSET (SUBSET S)
    OBVIOUS
  <2> HIDE DEF B
  <2> QED BY <1>1, <2>1, MinimalSubset
<1>3. PICK z \in m : Sm(m) # f[z] + Sm(m \ {z})
  BY <1>2
<1> DEFINE x == First(m)
<1>4. m \in SUBSET S /\ IsFiniteSet(m) /\ x \in m
  BY <1>2, <1>3, FS_Subset, FirstIsMember
<1>5. ASSUME NEW s \in SUBSET S PROVE Sm(s) \in Int
  <2>1. IsFiniteSet(s)
    BY FS_Subset
  <2> QED BY <2>1, SumType
<1>6. Sm(m) = f[x] + Sm(m \ {x})
  BY <1>3, <1>4, SumValue
<1> HIDE DEF x
<1>7. x # z
  BY <1>3, <1>6
<1>8. Sm(m \ {x}) = f[z] + Sm((m \ {x}) \ {z})
  <2>1. m \ {x} \notin B
    BY <1>2, <1>4
  <2> QED BY <1>3, <1>4, <1>7, <2>1
<1>9. Sm(m \ {z}) = f[x] + Sm((m \ {z}) \ {x})
  <2>1. m \ {z} \notin B
    BY <1>2, <1>3
  <2> QED BY <1>3, <1>4, <1>7, <2>1
<1>10. Sm((m \ {x}) \ {z}) = Sm((m \ {z}) \ {x})
  <2>1. (m \ {x}) \ {z} = (m \ {z}) \ {x}
    OBVIOUS
  <2> QED BY <2>1, Zenon
<1>11. f[x] \in Int /\ f[z] \in Int /\ Sm((m \ {z}) \ {x}) \in Int
  BY <1>3, <1>4, <1>5
<1>12. ASSUME NEW p \in Int, NEW q \in Int, NEW w \in Int PROVE p + (q + w) = q + (p + w)
  OBVIOUS
<1> HIDE DEF Sm, B
<1> QED BY <1>3, <1>6, <1>8, <1>9, <1>10, <1>11, <1>12

LEMMA SumSame ==
  ASSUME NEW S, IsFiniteSet(S), NEW f, NEW g, \A x \in S : f[x] = g[x]
  PROVE  SumFunctionOnSet(f, S) = SumFunctionOnSet(g, S)
<1> DEFINE B == {s \in SUBSET S : SumFunctionOnSet(f, s) # SumFunctionOnSet(g, s)}
<1>1. SUFFICES ASSUME B # {} PROVE FALSE
  OBVIOUS
<1>2. PICK m \in B : \A s \in SUBSET m : s # m => s \notin B
  <2>1. B \in SUBSET (SUBSET S)
    OBVIOUS
  <2> HIDE DEF B
  <2> QED BY <1>1, <2>1, MinimalSubset
<1>3. IsFiniteSet(m) /\ m \in SUBSET S
  BY <1>2, FS_Subset
<1>4. CASE m = {}
  BY <1>2, <1>3, <1>4, SumValue
<1>5. CASE m # {}
  <2>1. First(m) \in m
    BY <1>5, FirstIsMember
  <2>2. SumFunctionOnSet(f, m \ {First(m)}) = SumFunctionOnSet(g, m \ {First(m)})
    BY <1>2, <2>1
  <2>3. f[First(m)] = g[First(m)]
    BY <1>3, <2>1
  <2> QED BY <1>2, <1>3, <1>5, <2>2, <2>3, SumValue
<1> QED BY <1>4, <1>5

\* What one member gives another leaves the sum as it was.
LEMMA SumMoved ==
  ASSUME NEW S, IsFiniteSet(S), NEW f, NEW g, \A x \in S : f[x] \in Int /\ g[x] \in Int,
         NEW a \in S, NEW b \in S, a # b, f[a] + f[b] = g[a] + g[b],
         \A x \in S \ {a, b} : f[x] = g[x]
  PROVE  SumFunctionOnSet(f, S) = SumFunctionOnSet(g, S)
<1> DEFINE T == S \ {a}
           R == T \ {b}
<1>1. IsFiniteSet(T) /\ b \in T
  BY FS_RemoveElement
<1>2. IsFiniteSet(R)
  BY <1>1, FS_RemoveElement
<1>3. /\ SumFunctionOnSet(f, S) = f[a] + SumFunctionOnSet(f, T)
      /\ SumFunctionOnSet(g, S) = g[a] + SumFunctionOnSet(g, T)
  BY SumRemove
<1>4. /\ SumFunctionOnSet(f, T) = f[b] + SumFunctionOnSet(f, R)
      /\ SumFunctionOnSet(g, T) = g[b] + SumFunctionOnSet(g, R)
  BY <1>1, SumRemove
<1>5. SumFunctionOnSet(f, R) = SumFunctionOnSet(g, R) /\ SumFunctionOnSet(f, R) \in Int
  BY <1>2, SumSame, SumType
<1> QED BY <1>3, <1>4, <1>5

-----------------------------------------------------------------------------

IInv == TypeOK /\ NonNegative /\ NothingLeftBehind /\ InFlightAccounts /\ HonestOutcome

USE TransfersAssumption DEF TransfersAssumption, Exists, L!Exists, Txns,
    InTransaction, AfterCommit, Ended, Running, Unlocked

\* Initially nothing is locked and no request has begun.
LEMMA InitEstablishes == Init => IInv
  BY SMT DEF Init, L!LedgerInit, NoCall, IInv, TypeOK, NonNegative, NothingLeftBehind,
     InFlightAccounts, HonestOutcome, InFlight

\* A request past its checks carries a real sender, another receiver and a
\* natural amount.
LEMMA CallArguments ==
  ASSUME IInv, NEW r \in Requests, pc[r] \in {"begin"} \cup InTransaction
  PROVE  /\ Sender(r) \in Users /\ Receiver(r) \in Users /\ Sender(r) # Receiver(r)
         /\ Amount(r) \in Nat
<1>1. call[r] # NoCall /\ Sender(r) # Receiver(r)
  BY DEF IInv, InFlightAccounts
<1>2. call[r] \in [from : Users, to : Users, amount : Amounts]
  BY <1>1 DEF IInv, TypeOK
<1> QED BY <1>1, <1>2 DEF Sender, Receiver, Amount

LEMMA DebitStep ==
  ASSUME IInv, NEW r \in Requests, Debit(r)
  PROVE  IInv'
<1> DEFINE s == Sender(r)
           a == Amount(r)
<1>0. s \in Users /\ a \in Nat
  BY CallArguments DEF Debit
<1>1. /\ pc[r] = "debit" /\ pc' = [pc EXCEPT ![r] = "credit"]
      /\ Exists(s) /\ lock[s] = NoTx /\ balance[s] >= a
      /\ newest' = [newest EXCEPT ![s] = newest[s] - a]
      /\ lock' = [lock EXCEPT ![s] = r]
      /\ UNCHANGED <<status, balance, scan, target, call, conn, applied, emitted>>
  BY DEF Debit, Write, Goto, reset
<1>2. newest[s] = balance[s]
  BY <1>0, <1>1 DEF IInv, NothingLeftBehind
<1> HIDE DEF s, a
<1>3. TypeOK'
  BY <1>0, <1>1 DEF IInv, TypeOK
<1>4. NonNegative'
  BY <1>0, <1>1, <1>2 DEF IInv, TypeOK, NonNegative
<1>5. NothingLeftBehind'
  BY <1>0, <1>1 DEF IInv, TypeOK, NothingLeftBehind, InFlight, s, Sender, Receiver
<1>6. InFlightAccounts'
  BY <1>0, <1>1, <1>2 DEF IInv, TypeOK, InFlightAccounts, s, a, Sender, Receiver, Amount
<1>7. HonestOutcome'
  BY <1>1 DEF IInv, TypeOK, HonestOutcome
<1> QED BY <1>3, <1>4, <1>5, <1>6, <1>7 DEF IInv

LEMMA CreditStep ==
  ASSUME IInv, NEW r \in Requests, Credit(r)
  PROVE  IInv'
<1> DEFINE s == Sender(r)
           d == Receiver(r)
           a == Amount(r)
<1>0. s \in Users /\ d \in Users /\ s # d /\ a \in Nat
  BY CallArguments DEF Credit
<1>1. /\ pc[r] = "credit" /\ pc' = [pc EXCEPT ![r] = "commit"]
      /\ Exists(d) /\ lock[d] = NoTx
      /\ newest' = [newest EXCEPT ![d] = newest[d] + a]
      /\ lock' = [lock EXCEPT ![d] = r]
      /\ UNCHANGED <<status, balance, scan, target, call, conn, applied, emitted>>
  BY DEF Credit, Write, Goto, reset
<1>2. newest[d] = balance[d]
  BY <1>0, <1>1 DEF IInv, NothingLeftBehind
<1> HIDE DEF s, d, a
<1>3. TypeOK'
  BY <1>0, <1>1 DEF IInv, TypeOK
<1>4. NonNegative'
  BY <1>0, <1>1, <1>2 DEF IInv, TypeOK, NonNegative
<1>5. NothingLeftBehind'
  BY <1>0, <1>1 DEF IInv, TypeOK, NothingLeftBehind, InFlight, s, d, Sender, Receiver
<1>6. InFlightAccounts'
  BY <1>0, <1>1, <1>2 DEF IInv, TypeOK, InFlightAccounts, s, d, a, Sender, Receiver, Amount
<1>7. HonestOutcome'
  BY <1>1 DEF IInv, TypeOK, HonestOutcome
<1> QED BY <1>3, <1>4, <1>5, <1>6, <1>7 DEF IInv

\* A rollback restores the rows of a transfer and frees them.
LEMMA RollBackStep ==
  ASSUME IInv, NEW r \in Requests, pc[r] \in InTransaction, RollBack(r)
  PROVE  IInv'
<1>1. /\ pc' = [pc EXCEPT ![r] = "failed"] /\ call' = [call EXCEPT ![r] = NoCall]
      /\ newest' = [u \in Users |-> IF lock[u] = r THEN balance[u] ELSE newest[u]]
      /\ lock' = [u \in Users |-> IF lock[u] = r THEN NoTx ELSE lock[u]]
      /\ conn' = conn \ {r}
      /\ UNCHANGED <<status, balance, scan, target, applied, emitted>>
  BY DEF RollBack, Undo, Unlock, Finish, Goto, reset
<1>2. TypeOK'
  BY <1>1 DEF IInv, TypeOK
<1>3. NonNegative'
  BY <1>1 DEF IInv, TypeOK, NonNegative
<1>4. NothingLeftBehind'
  BY <1>1 DEF IInv, TypeOK, NothingLeftBehind, InFlight, Sender, Receiver
<1>5. InFlightAccounts'
  BY <1>1 DEF IInv, TypeOK, NothingLeftBehind, InFlightAccounts, Sender, Receiver, Amount
<1>6. HonestOutcome'
  BY <1>1 DEF IInv, TypeOK, HonestOutcome
<1> QED BY <1>2, <1>3, <1>4, <1>5, <1>6 DEF IInv

\* COMMIT makes the newest versions the committed ones, whoever asked for it
\* and whatever answer the request got.
LEMMA CommitStep ==
  ASSUME IInv, NEW r \in Requests, Commit(r) \/ CommitAckLost(r)
  PROVE  IInv'
<1>1. /\ pc[r] = "commit"
      /\ \/ pc' = [pc EXCEPT ![r] = "invalidate"] /\ UNCHANGED <<call, conn>>
         \/ /\ "ack" \in Faults /\ pc' = [pc EXCEPT ![r] = "failed"]
            /\ call' = [call EXCEPT ![r] = NoCall] /\ conn' = conn \ {r}
      /\ balance' = [u \in Users |-> IF lock[u] = r THEN newest[u] ELSE balance[u]]
      /\ lock' = [u \in Users |-> IF lock[u] = r THEN NoTx ELSE lock[u]]
      /\ applied' = applied \cup {r}
      /\ UNCHANGED <<status, newest, scan, target, emitted>>
  BY DEF Commit, CommitAckLost, Install, Unlock, Finish, Goto, reset
<1>2. TypeOK'
  BY <1>1 DEF IInv, TypeOK
<1>3. NonNegative'
  BY <1>1 DEF IInv, TypeOK, NonNegative
<1>4. NothingLeftBehind'
  BY <1>1 DEF IInv, TypeOK, NothingLeftBehind, InFlight, Sender, Receiver
<1>5. InFlightAccounts'
  BY <1>1 DEF IInv, TypeOK, NothingLeftBehind, InFlightAccounts, Sender, Receiver, Amount
<1>6. HonestOutcome'
  BY <1>1 DEF IInv, TypeOK, HonestOutcome
<1> QED BY <1>2, <1>3, <1>4, <1>5, <1>6 DEF IInv

\* The checks at the head of transferMoney touch no row.
LEMMA CheckStep ==
  ASSUME IInv, NEW r \in Requests, Check(r)
  PROVE  IInv'
<1>1. PICK from \in Users, to \in Users, a \in Amounts :
        \/ /\ from # to /\ pc' = [pc EXCEPT ![r] = "begin"]
           /\ call' = [call EXCEPT ![r] = [from |-> from, to |-> to, amount |-> a]]
        \/ pc' = [pc EXCEPT ![r] = "rejected"] /\ UNCHANGED call
  BY DEF Check, Goto
<1>2. pc[r] = "idle" /\ UNCHANGED <<status, balance, newest, lock, scan, target, conn, applied, emitted>>
  BY DEF Check, rows, reset
<1>3. TypeOK'
  BY <1>1, <1>2 DEF IInv, TypeOK
<1>4. NonNegative'
  BY <1>2 DEF IInv, NonNegative
<1>5. NothingLeftBehind'
  BY <1>1, <1>2 DEF IInv, TypeOK, NothingLeftBehind, InFlight, Sender, Receiver
<1>6. InFlightAccounts'
  BY <1>1, <1>2 DEF IInv, TypeOK, InFlightAccounts, Sender, Receiver, Amount, NoCall
<1>7. HonestOutcome'
  BY <1>1, <1>2 DEF IInv, TypeOK, HonestOutcome
<1> QED BY <1>3, <1>4, <1>5, <1>6, <1>7 DEF IInv

\* Taking a connection touches no row; only a failed START TRANSACTION keeps it.
LEMMA BeginStep ==
  ASSUME IInv, NEW r \in Requests, Begin(r) \/ BeginFailure(r)
  PROVE  IInv'
<1>1. /\ pc[r] = "begin" /\ conn' = conn \cup {r}
      /\ \/ pc' = [pc EXCEPT ![r] = "debit"] /\ UNCHANGED call
         \/ /\ "begin" \in Faults /\ pc' = [pc EXCEPT ![r] = "failed"]
            /\ call' = [call EXCEPT ![r] = NoCall]
      /\ UNCHANGED <<status, balance, newest, lock, scan, target, applied, emitted>>
  BY DEF Begin, BeginFailure, Goto, rows, reset
<1>0. r \notin applied
  BY <1>1 DEF IInv, HonestOutcome
<1>2. TypeOK'
  BY <1>1 DEF IInv, TypeOK
<1>3. NonNegative'
  BY <1>1 DEF IInv, NonNegative
<1>4. NothingLeftBehind'
  BY <1>0, <1>1 DEF IInv, TypeOK, NothingLeftBehind, InFlight, Sender, Receiver, Ended
<1>5. InFlightAccounts'
  BY <1>1 DEF IInv, TypeOK, InFlightAccounts, Sender, Receiver, Amount
<1>6. HonestOutcome'
  BY <1>1 DEF IInv, TypeOK, HonestOutcome
<1> QED BY <1>2, <1>3, <1>4, <1>5, <1>6 DEF IInv

\* What follows the commit touches no row, and emits only for itself.
LEMMA AfterCommitStep ==
  ASSUME IInv, NEW r \in Requests, Invalidate(r) \/ InvalidateFailure(r) \/ Emit(r)
  PROVE  IInv'
<1>1. /\ pc[r] \in AfterCommit
      /\ \/ pc' = [pc EXCEPT ![r] = "emit"] /\ UNCHANGED <<call, conn, emitted>>
         \/ /\ \/ /\ "redis" \in Faults
                  /\ pc' = [pc EXCEPT ![r] = "failed"] /\ UNCHANGED emitted
               \/ pc' = [pc EXCEPT ![r] = "executed"] /\ emitted' = emitted \cup {r}
            /\ call' = [call EXCEPT ![r] = NoCall] /\ conn' = conn \ {r}
      /\ UNCHANGED <<status, balance, newest, lock, scan, target, applied>>
  BY DEF Invalidate, InvalidateFailure, Emit, Finish, Goto, rows, reset
<1>2. TypeOK'
  BY <1>1 DEF IInv, TypeOK
<1>3. NonNegative'
  BY <1>1 DEF IInv, NonNegative
<1>4. NothingLeftBehind'
  BY <1>1 DEF IInv, TypeOK, NothingLeftBehind, InFlight, Sender, Receiver
<1>5. InFlightAccounts'
  BY <1>1 DEF IInv, TypeOK, InFlightAccounts, Sender, Receiver, Amount
<1>6. HonestOutcome'
  BY <1>1 DEF IInv, TypeOK, HonestOutcome
<1> QED BY <1>2, <1>3, <1>4, <1>5, <1>6 DEF IInv

\* A single statement changes one row that no transaction has locked.
LEMMA AccountStep ==
  ASSUME IInv, NEW u \in Users, Account(u)
  PROVE  IInv'
<1>1. UNCHANGED <<lock, scan, target, pc, call, conn, applied, emitted>> /\ lock[u] = NoTx
  BY DEF Account, CreateUser, SoftDelete, Restore, HardDelete, SetStatus,
         IncreaseBalance, DecreaseBalance, reset, flow
<1>2. \/ \E v \in Nat : /\ balance' = [balance EXCEPT ![u] = v]
                        /\ newest' = [newest EXCEPT ![u] = v] /\ UNCHANGED status
      \/ /\ UNCHANGED <<balance, newest>>
         /\ \E st \in {"active", "deleted", "gone"} : status' = [status EXCEPT ![u] = st]
         /\ status[u] = "unborn" \/ Exists(u)
  <2>1. ASSUME NEW a \in Amounts, IncreaseBalance(u, a)
       PROVE  \E v \in Nat : /\ balance' = [balance EXCEPT ![u] = v]
                             /\ newest' = [newest EXCEPT ![u] = v] /\ UNCHANGED status
    <3>1. balance[u] + a \in Nat
      BY <2>1 DEF IncreaseBalance, IInv, TypeOK, NonNegative
    <3>2. balance' = [balance EXCEPT ![u] = balance[u] + a] /\ UNCHANGED status
      BY <2>1 DEF IncreaseBalance
    <3>3. newest' = [newest EXCEPT ![u] = balance[u] + a]
      BY <2>1, <3>2 DEF IncreaseBalance, IInv, TypeOK
    <3> QED BY <3>1, <3>2, <3>3
  <2>2. ASSUME NEW a \in Amounts, DecreaseBalance(u, a)
       PROVE  \E v \in Nat : /\ balance' = [balance EXCEPT ![u] = v]
                             /\ newest' = [newest EXCEPT ![u] = v] /\ UNCHANGED status
    <3>1. balance[u] - a \in Nat
      BY <2>2 DEF DecreaseBalance, IInv, TypeOK, NonNegative
    <3>2. balance' = [balance EXCEPT ![u] = balance[u] - a] /\ UNCHANGED status
      BY <2>2 DEF DecreaseBalance
    <3>3. newest' = [newest EXCEPT ![u] = balance[u] - a]
      BY <2>2, <3>2 DEF DecreaseBalance, IInv, TypeOK
    <3> QED BY <3>1, <3>2, <3>3
  <2>3. CASE CreateUser(u) \/ SoftDelete(u) \/ Restore(u) \/ HardDelete(u)
    BY <2>3 DEF CreateUser, SoftDelete, Restore, HardDelete, SetStatus
  <2> QED BY <2>1, <2>2, <2>3 DEF Account
<1>3. TypeOK'
  BY <1>1, <1>2 DEF IInv, TypeOK
<1>4. NonNegative'
  BY <1>1, <1>2 DEF IInv, TypeOK, NonNegative
<1>5. NothingLeftBehind'
  BY <1>1, <1>2 DEF IInv, TypeOK, NothingLeftBehind, InFlight, Sender, Receiver
<1>6. InFlightAccounts'
  BY <1>1, <1>2 DEF IInv, TypeOK, InFlightAccounts, Sender, Receiver, Amount
<1>7. HonestOutcome'
  BY <1>1 DEF IInv, HonestOutcome
<1> QED BY <1>3, <1>4, <1>5, <1>6, <1>7 DEF IInv

-----------------------------------------------------------------------------
(* The reset job and the crash                                               *)

\* The next row the statement goes to is one it has still to lock, and it is
\* done only when none is left.
LEMMA NextRowTarget ==
  ASSUME IInv, NEW w \in Resets, NEW u \in Users, NextRow(w, u)
  PROVE  \/ /\ target' = [target EXCEPT ![w] = w]
            /\ \A v \in scan[w] \ {u} : Exists(v) => lock[v] = w
         \/ \E v \in scan[w] : target' = [target EXCEPT ![w] = v]
BY DEF NextRow, Left

LEMMA ResetStartStep ==
  ASSUME IInv, NEW w \in Resets, ResetStart(w)
  PROVE  IInv'
<1>1. /\ target[w] = NoTx
      /\ UNCHANGED <<status, balance, newest, lock, pc, call, conn, applied, emitted>>
  BY DEF ResetStart, rows, flow
<1>2. scan' = [scan EXCEPT ![w] = {u \in Users : Exists(u)}]
  BY DEF ResetStart
<1>3. \/ \E u \in Users : target' = [target EXCEPT ![w] = u]
      \/ scan'[w] = {} /\ target' = [target EXCEPT ![w] = w]
  BY <1>2 DEF ResetStart, IInv, TypeOK
<1>4. \A u \in Users : lock[u] # w
  BY <1>1 DEF IInv, NothingLeftBehind
<1>5. TypeOK'
  BY <1>1, <1>2, <1>3 DEF IInv, TypeOK
<1>6. NonNegative'
  BY <1>1 DEF IInv, NonNegative
<1>7. NothingLeftBehind'
  BY <1>1, <1>2, <1>3, <1>4 DEF IInv, TypeOK, NothingLeftBehind, InFlight, Sender, Receiver
<1>8. InFlightAccounts'
  BY <1>1, <1>2, <1>3, <1>4 DEF IInv, TypeOK, InFlightAccounts, Sender, Receiver, Amount
<1>9. HonestOutcome'
  BY <1>1 DEF IInv, HonestOutcome
<1> QED BY <1>5, <1>6, <1>7, <1>8, <1>9 DEF IInv

LEMMA ResetRowStep ==
  ASSUME IInv, NEW w \in Resets, ResetRow(w)
  PROVE  IInv'
<1> DEFINE u == target[w]
<1>1. /\ u \in scan[w] /\ u \in Users /\ Exists(u) /\ lock[u] = NoTx
      /\ newest' = [newest EXCEPT ![u] = 0] /\ lock' = [lock EXCEPT ![u] = w]
      /\ UNCHANGED <<status, balance, scan, pc, call, conn, applied, emitted>>
  BY DEF ResetRow, Write, flow, IInv, TypeOK
<1>2. \/ /\ target' = [target EXCEPT ![w] = w]
         /\ \A v \in scan[w] \ {u} : Exists(v) => lock[v] = w
      \/ \E v \in scan[w] : target' = [target EXCEPT ![w] = v]
  BY <1>1, NextRowTarget DEF ResetRow
<1> HIDE DEF u
<1>3. TypeOK'
  BY <1>1, <1>2 DEF IInv, TypeOK
<1>4. NonNegative'
  BY <1>1 DEF IInv, TypeOK, NonNegative
<1>5. NothingLeftBehind'
  BY <1>1, <1>2 DEF IInv, TypeOK, NothingLeftBehind, InFlight, Sender, Receiver
<1>6. InFlightAccounts'
  BY <1>1, <1>2 DEF IInv, TypeOK, InFlightAccounts, Sender, Receiver, Amount
<1>7. HonestOutcome'
  BY <1>1 DEF IInv, HonestOutcome
<1> QED BY <1>3, <1>4, <1>5, <1>6, <1>7 DEF IInv

LEMMA ResetSkipStep ==
  ASSUME IInv, NEW w \in Resets, ResetSkip(w)
  PROVE  IInv'
<1> DEFINE u == target[w]
<1>1. /\ u \in scan[w] /\ u \in Users /\ ~Exists(u)
      /\ UNCHANGED <<status, balance, newest, lock, scan, pc, call, conn, applied, emitted>>
  BY DEF ResetSkip, rows, flow, IInv, TypeOK
<1>2. \/ /\ target' = [target EXCEPT ![w] = w]
         /\ \A v \in scan[w] \ {u} : Exists(v) => lock[v] = w
      \/ \E v \in scan[w] : target' = [target EXCEPT ![w] = v]
  BY <1>1, NextRowTarget DEF ResetSkip
<1> HIDE DEF u
<1>3. TypeOK'
  BY <1>1, <1>2 DEF IInv, TypeOK
<1>4. NonNegative'
  BY <1>1 DEF IInv, NonNegative
<1>5. NothingLeftBehind'
  BY <1>1, <1>2 DEF IInv, TypeOK, NothingLeftBehind, InFlight, Sender, Receiver
<1>6. InFlightAccounts'
  BY <1>1, <1>2 DEF IInv, TypeOK, InFlightAccounts, Sender, Receiver, Amount
<1>7. HonestOutcome'
  BY <1>1 DEF IInv, HonestOutcome
<1> QED BY <1>3, <1>4, <1>5, <1>6, <1>7 DEF IInv

LEMMA ResetCommitStep ==
  ASSUME IInv, NEW w \in Resets, ResetCommit(w)
  PROVE  IInv'
<1>1. /\ scan' = [v \in Resets |-> IF v = w THEN {} ELSE scan[v]]
      /\ target' = [v \in Resets |-> IF v = w THEN NoTx ELSE target[v]]
      /\ balance' = [u \in Users |-> IF lock[u] = w THEN newest[u] ELSE balance[u]]
      /\ lock' = [u \in Users |-> IF lock[u] = w THEN NoTx ELSE lock[u]]
      /\ UNCHANGED <<status, newest, pc, call, conn, applied, emitted>>
  BY DEF ResetCommit, ResetIdle, Install, Unlock, flow
<1>2. TypeOK'
  BY <1>1 DEF IInv, TypeOK
<1>3. NonNegative'
  BY <1>1 DEF IInv, TypeOK, NonNegative
<1>4. NothingLeftBehind'
  BY <1>1 DEF IInv, TypeOK, NothingLeftBehind, InFlight, Sender, Receiver
<1>5. InFlightAccounts'
  BY <1>1 DEF IInv, TypeOK, InFlightAccounts, Sender, Receiver, Amount
<1>6. HonestOutcome'
  BY <1>1 DEF IInv, HonestOutcome
<1> QED BY <1>2, <1>3, <1>4, <1>5, <1>6 DEF IInv

LEMMA ResetAbortStep ==
  ASSUME IInv, NEW w \in Resets, ResetFailure(w) \/ ResetVictim(w)
  PROVE  IInv'
<1>1. /\ scan' = [v \in Resets |-> IF v = w THEN {} ELSE scan[v]]
      /\ target' = [v \in Resets |-> IF v = w THEN NoTx ELSE target[v]]
      /\ newest' = [u \in Users |-> IF lock[u] = w THEN balance[u] ELSE newest[u]]
      /\ lock' = [u \in Users |-> IF lock[u] = w THEN NoTx ELSE lock[u]]
      /\ UNCHANGED <<status, balance, pc, call, conn, applied, emitted>>
  BY DEF ResetFailure, ResetVictim, ResetIdle, Undo, Unlock, flow
<1>2. TypeOK'
  BY <1>1 DEF IInv, TypeOK
<1>3. NonNegative'
  BY <1>1 DEF IInv, TypeOK, NonNegative
<1>4. NothingLeftBehind'
  BY <1>1 DEF IInv, TypeOK, NothingLeftBehind, InFlight, Sender, Receiver
<1>5. InFlightAccounts'
  BY <1>1 DEF IInv, TypeOK, InFlightAccounts, Sender, Receiver, Amount
<1>6. HonestOutcome'
  BY <1>1 DEF IInv, HonestOutcome
<1> QED BY <1>2, <1>3, <1>4, <1>5, <1>6 DEF IInv

LEMMA CrashStep ==
  ASSUME IInv, Crash
  PROVE  IInv'
<1>1. /\ scan' = [w \in Resets |-> {}] /\ target' = [w \in Resets |-> NoTx]
      /\ newest' = [u \in Users |-> IF lock[u] \in Txns THEN balance[u] ELSE newest[u]]
      /\ lock' = [u \in Users |-> IF lock[u] \in Txns THEN NoTx ELSE lock[u]]
      /\ pc' = [r \in Requests |-> IF r \in InFlight THEN "crashed" ELSE pc[r]]
      /\ call' = [r \in Requests |-> NoCall] /\ conn' = {}
      /\ UNCHANGED <<status, balance, applied, emitted>>
  BY DEF Crash, ResetIdle, Undo, Unlock
<1>2. TypeOK'
  BY <1>1 DEF IInv, TypeOK
<1>3. NonNegative'
  BY <1>1 DEF IInv, TypeOK, NonNegative
<1>4. NothingLeftBehind'
  BY <1>1 DEF IInv, TypeOK, NothingLeftBehind
<1>5. InFlightAccounts'
  BY <1>1 DEF IInv, TypeOK, InFlightAccounts, InFlight
<1>6. HonestOutcome'
  BY <1>1 DEF IInv, TypeOK, HonestOutcome, InFlight
<1> QED BY <1>2, <1>3, <1>4, <1>5, <1>6 DEF IInv

-----------------------------------------------------------------------------
(* The theorems                                                              *)

\* A victim of the deadlock detector holds a row, so it is inside its
\* transaction.
LEMMA VictimInTransaction ==
  ASSUME IInv, NEW r \in Requests, Deadlocked(r)
  PROVE  pc[r] \in InTransaction
<1>1. PICK u \in Users : lock[u] = r
  <2>1. PICK ring \in SUBSET Txns : r \in ring /\ UNION {Blockers(x) : x \in ring} = ring
    BY DEF Deadlocked
  <2>2. PICK x \in Txns : r \in Blockers(x)
    BY <2>1
  <2>3. \A u \in Wanted(x) : u \in Users
    BY <2>2, CallArguments DEF Wanted, IInv, TypeOK
  <2> QED BY <2>2, <2>3 DEF Blockers
<1> QED BY <1>1 DEF IInv, NothingLeftBehind

LEMMA NextPreserves == IInv /\ [Next]_vars => IInv'
<1> SUFFICES ASSUME IInv, [Next]_vars PROVE IInv'
  OBVIOUS
<1>1. ASSUME NEW r \in Requests, Step(r) PROVE IInv'
  <2>1. CASE Begin(r) BY <2>1, BeginStep
  <2>2. CASE Debit(r) BY <2>2, DebitStep
  <2>3. CASE DebitRefused(r) BY <2>3, RollBackStep DEF DebitRefused
  <2>4. CASE Credit(r) BY <2>4, CreditStep
  <2>5. CASE CreditRefused(r) BY <2>5, RollBackStep DEF CreditRefused
  <2>6. CASE Commit(r) BY <2>6, CommitStep
  <2>7. CASE Invalidate(r) \/ Emit(r) BY <2>7, AfterCommitStep
  <2>8. CASE DeadlockVictim(r) BY <2>8, VictimInTransaction, RollBackStep DEF DeadlockVictim
  <2> QED BY <1>1, <2>1, <2>2, <2>3, <2>4, <2>5, <2>6, <2>7, <2>8 DEF Step
<1>2. ASSUME NEW r \in Requests, Failure(r) PROVE IInv'
  <2>1. CASE BeginFailure(r) BY <2>1, BeginStep
  <2>2. CASE StatementFailure(r) BY <2>2, RollBackStep DEF StatementFailure
  <2>3. CASE CommitAckLost(r) BY <2>3, CommitStep
  <2>4. CASE InvalidateFailure(r) BY <2>4, AfterCommitStep
  <2> QED BY <1>2, <2>1, <2>2, <2>3, <2>4 DEF Failure
<1>3. ASSUME NEW w \in Resets, ResetStart(w) \/ ResetStep(w) \/ ResetFailure(w) PROVE IInv'
  BY <1>3, ResetStartStep, ResetRowStep, ResetSkipStep, ResetCommitStep, ResetAbortStep
     DEF ResetStep
<1>4. CASE UNCHANGED vars
  BY <1>4 DEF vars, rows, reset, flow, IInv, TypeOK, NonNegative, NothingLeftBehind,
     InFlightAccounts, HonestOutcome, InFlight, Sender, Receiver, Amount
<1> QED BY <1>1, <1>2, <1>3, <1>4, CheckStep, AccountStep, CrashStep DEF Next

\* The conjunction of all the invariants holds in every reachable state.
THEOREM Invariance == Spec => []IInv
BY InitEstablishes, NextPreserves, PTL DEF Spec

\* Every variable keeps its type.
THEOREM TypeCorrect == Spec => []TypeOK
BY Invariance, PTL DEF IInv

\* No interleaving of transfers, withdrawals and resets overdraws an account.
THEOREM NeverOverdrawn == Spec => []NonNegative
BY Invariance, PTL DEF IInv

\* No finished request leaves a locked or half-written row.
THEOREM NothingIsLeftBehind == Spec => []NothingLeftBehind
BY Invariance, PTL DEF IInv

\* Debits and credits in flight always match.
THEOREM InFlightBalanced == Spec => []InFlightAccounts
BY Invariance, PTL DEF IInv

\* Answers and events agree with what was committed, but for the two faults.
THEOREM OutcomesAreHonest == Spec => []HonestOutcome
BY Invariance, PTL DEF IInv

\* A reset that commits leaves neither money in the accounts of its snapshot
\* nor money in flight between them.
THEOREM ResetIsTotal == Spec => ResetLeavesNothing
<1>1. ASSUME IInv, [Next]_vars
      PROVE  [\A w \in Resets : target[w] = w /\ balance' # balance /\ target'[w] = NoTx =>
          /\ \A u \in scan[w] : Exists(u) => balance'[u] = 0
          /\ \A r \in Requests : pc[r] \in {"credit", "commit"} =>
                /\ Sender(r) \notin scan[w]
                /\ pc[r] = "commit" => Receiver(r) \notin scan[w]]_vars
  <2> SUFFICES ASSUME Next, NEW w \in Resets,
                      target[w] = w, balance' # balance, target'[w] = NoTx
               PROVE  /\ \A u \in scan[w] : Exists(u) => balance'[u] = 0
                      /\ \A r \in Requests : pc[r] \in {"credit", "commit"} =>
                            /\ Sender(r) \notin scan[w]
                            /\ pc[r] = "commit" => Receiver(r) \notin scan[w]
    BY <1>1
  <2>1. ResetCommit(w)
    <3>1. \A r \in Requests : (Check(r) \/ Step(r) \/ Failure(r)) => UNCHANGED target
      BY DEF Check, Step, Failure, Begin, BeginFailure, Debit, DebitRefused, Credit,
         CreditRefused, StatementFailure, RollBack, Commit, CommitAckLost, Invalidate,
         InvalidateFailure, Emit, DeadlockVictim, reset
    <3>2. \A u \in Users : Account(u) => UNCHANGED target
      BY DEF Account, CreateUser, SoftDelete, Restore, HardDelete, SetStatus,
         IncreaseBalance, DecreaseBalance, reset
    <3>3. ASSUME NEW v \in Resets, ResetStart(v) \/ ResetRow(v) \/ ResetSkip(v)
                    \/ ResetVictim(v) \/ ResetFailure(v)
          PROVE  UNCHANGED balance
      BY <3>3 DEF ResetStart, ResetRow, ResetSkip, ResetVictim, ResetFailure, Undo, Write, rows
    <3>4. ASSUME NEW v \in Resets, ResetCommit(v), v # w PROVE target'[w] = target[w]
      BY <3>4 DEF ResetCommit, ResetIdle
    <3>5. Crash => UNCHANGED balance
      BY DEF Crash, Undo
    <3> QED BY <3>1, <3>2, <3>3, <3>4, <3>5 DEF Next, ResetStep
  <2>2. \A u \in scan[w] : Exists(u) => lock[u] = w /\ newest[u] = 0 /\ balance'[u] = newest[u]
    BY <2>1, <1>1 DEF IInv, TypeOK, InFlightAccounts, ResetCommit, Install
  <2>3. ASSUME NEW r \in Requests, pc[r] \in {"credit", "commit"}
        PROVE  lock[Sender(r)] = r /\ (pc[r] = "commit" => lock[Receiver(r)] = r)
    BY <2>3, <1>1 DEF IInv, InFlightAccounts
  <2>4. \A u \in Users : lock[u] # NoTx => Exists(u)
    BY <1>1 DEF IInv, InFlightAccounts
  <2>5. scan[w] \subseteq Users
    BY <1>1 DEF IInv, TypeOK
  <2> QED BY <2>2, <2>3, <2>4, <2>5
<1> QED BY <1>1, Invariance, PTL DEF Spec, ResetLeavesNothing

-----------------------------------------------------------------------------
(* Refinement: only commits and single statements move the ledger            *)

LEMMA CommitIsMove ==
  ASSUME IInv, NEW r \in Requests, Commit(r) \/ CommitAckLost(r)
  PROVE  \E from, to \in Users, a \in Amounts : L!Move(r, from, to, a)
<1> DEFINE s == Sender(r)
           d == Receiver(r)
           a == Amount(r)
<1>1. /\ s \in Users /\ d \in Users /\ s # d /\ a \in Nat
  BY CallArguments DEF Commit, CommitAckLost
<1>2. /\ pc[r] = "commit" /\ applied' = applied \cup {r} /\ UNCHANGED status
      /\ balance' = [u \in Users |-> IF lock[u] = r THEN newest[u] ELSE balance[u]]
  BY DEF Commit, CommitAckLost, Install
<1>3. a \in Amounts
  BY <1>1, <1>2 DEF IInv, TypeOK, InFlightAccounts, Amount
<1>4. /\ \A u \in Users : lock[u] = r <=> u \in {s, d}
      /\ newest[s] = balance[s] - a /\ newest[d] = balance[d] + a
      /\ Exists(s) /\ Exists(d) /\ newest[s] >= 0 /\ r \notin applied
  BY <1>1, <1>2 DEF IInv, TypeOK, NonNegative, NothingLeftBehind, InFlightAccounts, HonestOutcome
<1> HIDE DEF s, d, a
<1>5. balance' = [balance EXCEPT ![s] = @ - a, ![d] = @ + a]
  BY <1>1, <1>2, <1>4 DEF IInv, TypeOK
<1>6. balance[s] >= a
  BY <1>1, <1>4 DEF IInv, TypeOK
<1>7. L!Move(r, s, d, a)
  BY <1>1, <1>2, <1>4, <1>5, <1>6 DEF L!Move
<1> QED BY <1>1, <1>3, <1>7

LEMMA ResetCommitIsReset ==
  ASSUME IInv, NEW w \in Resets, ResetCommit(w)
  PROVE  L!LedgerNext
<1> DEFINE zeroed == LockedBy({w})
<1>1. /\ \A u \in Users : lock[u] = w => newest[u] = 0 /\ Exists(u)
      /\ balance' = [u \in Users |-> IF lock[u] = w THEN newest[u] ELSE balance[u]]
      /\ UNCHANGED <<status, applied>>
  BY DEF IInv, InFlightAccounts, ResetCommit, Install, flow
<1>2. L!Reset(zeroed)
  BY <1>1 DEF L!Reset, LockedBy
<1> QED BY <1>2 DEF L!LedgerNext, LockedBy

LEMMA AccountIsLedgerStep ==
  ASSUME IInv, NEW u \in Users, Account(u)
  PROVE  L!LedgerNext
<1>1. CASE CreateUser(u) \/ SoftDelete(u) \/ Restore(u) \/ HardDelete(u)
  BY <1>1 DEF CreateUser, SoftDelete, Restore, HardDelete, SetStatus, flow,
     L!Lifecycle, L!LedgerNext
<1>2. CASE \E a \in Amounts : IncreaseBalance(u, a)
  BY <1>2 DEF IncreaseBalance, flow, L!Deposit, L!LedgerNext
<1>3. CASE \E a \in Amounts : DecreaseBalance(u, a)
  BY <1>3 DEF DecreaseBalance, flow, L!Withdraw, L!LedgerNext
<1> QED BY <1>1, <1>2, <1>3 DEF Account

\* Every step of the detailed system is a step of the ledger or leaves the
\* committed rows alone: a transfer takes effect at its commit, at most once.
THEOREM Refinement == Spec => ImplementsLedger
<1>1. Init => L!LedgerInit
  BY DEF Init
<1>2. IInv /\ [Next]_vars => [L!LedgerNext]_(L!ledgerVars)
  <2> SUFFICES ASSUME IInv, [Next]_vars PROVE [L!LedgerNext]_(L!ledgerVars)
    OBVIOUS
  <2>1. ASSUME NEW r \in Requests, Check(r) \/ Step(r) \/ Failure(r)
        PROVE  [L!LedgerNext]_(L!ledgerVars)
    <3>1. CASE Commit(r) \/ CommitAckLost(r)
      BY <3>1, CommitIsMove DEF L!LedgerNext
    <3>2. CASE ~(Commit(r) \/ CommitAckLost(r))
      <4>1. UNCHANGED <<status, balance, applied>>
        BY <2>1, <3>2 DEF Check, Step, Failure, Begin, BeginFailure, Debit, DebitRefused,
           Credit, CreditRefused, StatementFailure, DeadlockVictim, RollBack, Undo, Write,
           Invalidate, InvalidateFailure, Emit, rows
      <4> QED BY <4>1 DEF L!ledgerVars
    <3> QED BY <3>1, <3>2
  <2>2. ASSUME NEW w \in Resets, ResetStart(w) \/ ResetStep(w) \/ ResetFailure(w)
        PROVE  [L!LedgerNext]_(L!ledgerVars)
    <3>1. CASE ResetCommit(w)
      BY <3>1, ResetCommitIsReset
    <3>2. CASE ~ResetCommit(w)
      <4>1. UNCHANGED <<status, balance, applied>>
        BY <2>2, <3>2 DEF ResetStart, ResetStep, ResetRow, ResetSkip, ResetVictim,
           ResetFailure, Undo, Write, rows, flow
      <4> QED BY <4>1 DEF L!ledgerVars
    <3> QED BY <3>1, <3>2
  <2>3. CASE Crash \/ UNCHANGED vars
    BY <2>3 DEF Crash, Undo, vars, rows, flow, L!ledgerVars
  <2> QED BY <2>1, <2>2, <2>3, AccountIsLedgerStep DEF Next
<1> QED BY <1>1, <1>2, Invariance, PTL DEF Spec, ImplementsLedger, L!LedgerSpec

-----------------------------------------------------------------------------
(* Conservation                                                              *)

\* A move takes from one account what it gives another, and both exist.
LEMMA MoveConserves ==
  ASSUME TypeOK, TypeOK', NEW r \in Requests, NEW from \in Users, NEW to \in Users,
         NEW a \in Amounts, L!Move(r, from, to, a)
  PROVE  Total' = Total
<1> DEFINE S == {u \in Users : Exists(u)}
<1>1. from # to /\ from \in S /\ to \in S
  BY DEF L!Move
<1>2. UNCHANGED status /\ balance' = [balance EXCEPT ![from] = @ - a, ![to] = @ + a]
  BY DEF L!Move
<1>3. \A u \in S : balance[u] \in Int /\ balance'[u] \in Int
  BY DEF TypeOK
<1>4. /\ a \in Int /\ balance[from] \in Int /\ balance[to] \in Int
      /\ balance'[from] = balance[from] - a /\ balance'[to] = balance[to] + a
  BY <1>1, <1>2 DEF TypeOK
<1>5. \A u \in S \ {from, to} : balance[u] = balance'[u]
  BY <1>2 DEF TypeOK
<1>6. balance[from] + balance[to] = balance'[from] + balance'[to]
  BY <1>4
<1>7. IsFiniteSet(S)
  BY FS_Subset
<1>8. SumFunctionOnSet(balance, S) = SumFunctionOnSet(balance', S)
  <2> HIDE DEF S
  <2> QED BY <1>1, <1>3, <1>5, <1>6, <1>7, SumMoved
<1> QED BY <1>2, <1>8, Zenon DEF Total

\* Whatever a transfer does, and however it ends, the accounts hold as much as
\* before.
THEOREM MoneyIsConserved == Spec => TransfersConserve
<1>1. ASSUME IInv, IInv', [Next]_vars PROVE [flow' # flow => Total' = Total]_vars
  <2> SUFFICES ASSUME Next, flow' # flow PROVE Total' = Total
    BY <1>1
  <2>1. ASSUME NEW r \in Requests, Commit(r) \/ CommitAckLost(r) PROVE Total' = Total
    BY <1>1, <2>1, CommitIsMove, MoveConserves DEF IInv
  <2>2. CASE UNCHANGED <<status, balance>>
    BY <2>2 DEF Total
  <2>3. ASSUME NEW r \in Requests, Check(r) \/ Step(r) \/ Failure(r),
               ~(Commit(r) \/ CommitAckLost(r))
        PROVE  UNCHANGED <<status, balance>>
    BY <2>3 DEF Check, Step, Failure, Begin, BeginFailure, Debit, DebitRefused,
       Credit, CreditRefused, StatementFailure, DeadlockVictim, RollBack, Undo, Write,
       Invalidate, InvalidateFailure, Emit, rows
  <2>4. ASSUME NEW w \in Resets, ResetStart(w) \/ ResetStep(w) \/ ResetFailure(w) PROVE FALSE
    BY <2>4 DEF ResetStart, ResetStep, ResetRow, ResetSkip, ResetCommit, ResetVictim, ResetFailure
  <2>5. ASSUME NEW u \in Users, Account(u) PROVE FALSE
    BY <2>5 DEF Account, CreateUser, SoftDelete, Restore, HardDelete, SetStatus,
       IncreaseBalance, DecreaseBalance
  <2>6. CASE Crash
    BY <2>2, <2>6 DEF Crash, Undo
  <2> QED BY <2>1, <2>2, <2>3, <2>4, <2>5, <2>6 DEF Next
<1> QED BY <1>1, Invariance, PTL DEF Spec, TransfersConserve

-----------------------------------------------------------------------------
(* No standstill: the guards of Step and ResetStep, and who is waited for    *)

Busy == InFlight \cup {w \in Resets : Running(w)}

CanStep(t) ==
    \/ /\ t \in Requests
       /\ \/ pc[t] = "begin" /\ Cardinality(conn) < PoolSize
          \/ /\ pc[t] = "debit"
             /\ ~Exists(Sender(t)) \/ balance[Sender(t)] < Amount(t) \/ lock[Sender(t)] = NoTx
          \/ pc[t] = "credit" /\ (~Exists(Receiver(t)) \/ lock[Receiver(t)] = NoTx)
          \/ pc[t] \in {"commit"} \cup AfterCommit
    \/ /\ t \in Resets
       /\ \/ target[t] = t
          \/ target[t] \in scan[t] /\ (~Exists(target[t]) \/ lock[target[t]] = NoTx)
    \/ Deadlocked(t)

\* For a connection of the pool, or for the holder of a row.
WaitsFor(t) ==
    IF t \in Requests /\ pc[t] = "begin"
    THEN IF Cardinality(conn) < PoolSize THEN {} ELSE conn
    ELSE Blockers(t)

\* However transfers and resets wait for each other, for rows or for the pool:
\* among any of them that wait for nobody else there is one whose next step is
\* possible, if only as the victim of a deadlock.
NoStandstill ==
    \A W \in SUBSET Busy :
        W # {} /\ (\A t \in W : WaitsFor(t) \subseteq W) => \E t \in W : CanStep(t)

\* A held connection is past "begin"; a reset stands at a row of its snapshot
\* that it has not written yet.
Positions ==
    /\ \A r \in conn : pc[r] \notin {"idle", "begin"}
    /\ \A w \in Resets : target[w] \in {NoTx, w} \cup {u \in scan[w] : lock[u] # w}

LEMMA RequestPositions ==
  ASSUME IInv, Positions, NEW r \in Requests, Check(r) \/ Step(r) \/ Failure(r)
  PROVE  Positions'
<1>1. pc[r] \notin Ended /\ (\A w \in Resets : r # w)
  BY VictimInTransaction DEF Check, Step, Failure, Begin, BeginFailure, Debit, DebitRefused,
     Credit, CreditRefused, StatementFailure, DeadlockVictim, Commit, CommitAckLost,
     Invalidate, InvalidateFailure, Emit
<1>2. /\ UNCHANGED <<scan, target>>
      /\ \A u \in Users : lock'[u] \in {lock[u], r, NoTx}
  BY DEF Check, Step, Failure, Begin, BeginFailure, Debit, DebitRefused,
     Credit, CreditRefused, StatementFailure, DeadlockVictim, Commit, CommitAckLost,
     Invalidate, InvalidateFailure, Emit, RollBack, Undo, Install, Unlock, Write, reset, rows,
     IInv, TypeOK
<1>3. \A w \in Resets : target'[w] \in {NoTx, w} \cup {u \in scan'[w] : lock'[u] # w}
  BY <1>1, <1>2 DEF Positions, IInv, TypeOK
<1>4. \A q \in conn' : pc'[q] \notin {"idle", "begin"}
  <2>1. /\ conn' \in {conn, conn \ {r}, conn \cup {r}}
        /\ \A q \in Requests \ {r} : pc'[q] = pc[q]
        /\ r \in conn' => pc'[r] \notin {"idle", "begin"}
    <3>1. CASE Check(r)
      BY <3>1 DEF Check, Goto, Positions, IInv, TypeOK
    <3>2. CASE Begin(r) \/ BeginFailure(r) \/ Debit(r) \/ Credit(r) \/ Commit(r) \/ Invalidate(r)
      BY <3>2 DEF Begin, BeginFailure, Debit, Credit, Commit, Invalidate, Goto, IInv, TypeOK
    <3>3. CASE \E l \in Ended : Finish(r, l)
      BY <3>3 DEF Finish, Goto, IInv, TypeOK
    <3> QED BY <3>1, <3>2, <3>3 DEF Step, Failure, DebitRefused, CreditRefused, StatementFailure,
               DeadlockVictim, RollBack, CommitAckLost, InvalidateFailure, Emit
  <2>2. conn \subseteq Requests
    BY DEF IInv, TypeOK
  <2> QED BY <2>1, <2>2 DEF Positions
<1> QED BY <1>3, <1>4 DEF Positions

LEMMA ResetPositions ==
  ASSUME IInv, Positions, NEW w \in Resets, ResetStart(w) \/ ResetStep(w) \/ ResetFailure(w)
  PROVE  Positions'
<1>1. UNCHANGED <<pc, conn>>
  BY DEF ResetStart, ResetStep, ResetRow, ResetSkip, ResetCommit, ResetVictim, ResetFailure, flow
<1>2. \A v \in Resets \ {w} : /\ target'[v] = target[v] /\ scan'[v] = scan[v]
                              /\ \A u \in Users : lock'[u] = v => lock[u] = v
  <2>1. CASE ResetStart(w)
    BY <2>1 DEF ResetStart, rows, IInv, TypeOK
  <2>2. CASE ResetRow(w) \/ ResetSkip(w)
    BY <2>2 DEF ResetRow, ResetSkip, NextRow, Write, rows, IInv, TypeOK
  <2>3. CASE ResetCommit(w) \/ ResetVictim(w) \/ ResetFailure(w)
    BY <2>3 DEF ResetCommit, ResetVictim, ResetFailure, ResetIdle, Install, Undo, Unlock, IInv, TypeOK
  <2> QED BY <2>1, <2>2, <2>3 DEF ResetStep
<1>3. target'[w] \in {NoTx, w} \cup {u \in scan'[w] : lock'[u] # w}
  <2>1. CASE ResetStart(w)
    <3>1. \A u \in Users : lock[u] # w
      BY <2>1 DEF ResetStart, IInv, NothingLeftBehind
    <3>2. target'[w] = w \/ target'[w] \in scan'[w]
      BY <2>1 DEF ResetStart, IInv, TypeOK
    <3>3. scan'[w] \subseteq Users /\ UNCHANGED lock
      BY <2>1 DEF ResetStart, rows, IInv, TypeOK
    <3> QED BY <3>1, <3>2, <3>3
  <2>2. CASE ResetRow(w) \/ ResetSkip(w)
    <3> DEFINE u == target[w]
    <3>1. u \in Users /\ UNCHANGED scan /\ NextRow(w, u) /\ \A v \in Users \ {u} : lock'[v] = lock[v]
      BY <2>2 DEF ResetRow, ResetSkip, Write, rows, IInv, TypeOK
    <3>2. target'[w] = w \/ target'[w] \in Left(w, u)
      BY <3>1 DEF NextRow, IInv, TypeOK
    <3> QED BY <3>1, <3>2 DEF Left, IInv, TypeOK
  <2>3. CASE ResetCommit(w) \/ ResetVictim(w) \/ ResetFailure(w)
    BY <2>3 DEF ResetCommit, ResetVictim, ResetFailure, ResetIdle
  <2> QED BY <2>1, <2>2, <2>3 DEF ResetStep
<1> QED BY <1>1, <1>2, <1>3 DEF Positions, IInv, TypeOK

LEMMA PositionsHold == Spec => []Positions
<1>1. Init => Positions
  BY DEF Init, Positions
<1>2. IInv /\ Positions /\ [Next]_vars => Positions'
  <2> SUFFICES ASSUME IInv, Positions, [Next]_vars PROVE Positions'
    OBVIOUS
  <2>1. CASE UNCHANGED vars
    BY <2>1 DEF vars, rows, reset, flow, Positions
  <2>2. ASSUME NEW u \in Users, Account(u) PROVE Positions'
    BY <2>2 DEF Account, CreateUser, SoftDelete, Restore, HardDelete, SetStatus,
       IncreaseBalance, DecreaseBalance, reset, flow, Positions
  <2>3. CASE Crash
    BY <2>3 DEF Crash, ResetIdle, Positions
  <2> QED BY <2>1, <2>2, <2>3, RequestPositions, ResetPositions DEF Next
<1> QED BY <1>1, <1>2, Invariance, PTL DEF Spec

\* Whoever is at work and cannot go on waits for the holder of a row, and that
\* holder is at work too, past "begin".
LEMMA BlockedByHolder ==
  ASSUME IInv, Positions, NEW t \in Busy, ~CanStep(t), t \in Requests => pc[t] # "begin"
  PROVE  /\ Blockers(t) # {}
         /\ \A h \in Blockers(t) : h \in Txns /\ (h \in Requests => pc[h] # "begin")
<1>1. \A u \in Users : lock[u] \in Requests => pc[lock[u]] \in {"credit", "commit"}
  BY DEF IInv, NothingLeftBehind
<1>2. ASSUME NEW u \in Users, u \in Wanted(t), Exists(u), lock[u] # NoTx, lock[u] # t
      PROVE  Blockers(t) # {}
  BY <1>2 DEF Blockers
<1>3. CASE t \in Requests
  <2>1. pc[t] \in {"debit", "credit"}
    BY <1>3 DEF Busy, InFlight, CanStep, IInv, TypeOK
  <2>2. Sender(t) \in Users /\ Receiver(t) \in Users /\ Sender(t) # Receiver(t)
    BY <1>3, <2>1, CallArguments
  <2>3. ASSUME pc[t] = "debit" PROVE Blockers(t) # {}
    <3>1. Exists(Sender(t)) /\ lock[Sender(t)] # NoTx
      BY <1>3, <2>3 DEF CanStep
    <3>2. lock[Sender(t)] # t
      BY <1>1, <1>3, <2>2, <2>3
    <3> QED BY <1>2, <1>3, <2>2, <2>3, <3>1, <3>2 DEF Wanted
  <2>4. ASSUME pc[t] = "credit" PROVE Blockers(t) # {}
    <3>1. Exists(Receiver(t)) /\ lock[Receiver(t)] # NoTx
      BY <1>3, <2>4 DEF CanStep
    <3>2. lock[Receiver(t)] # t
      BY <1>3, <2>2, <2>4 DEF IInv, NothingLeftBehind
    <3> QED BY <1>2, <1>3, <2>2, <2>4, <3>1, <3>2 DEF Wanted
  <2>5. Blockers(t) # {}
    BY <2>1, <2>3, <2>4
  <2>6. Wanted(t) \subseteq Users
    BY <1>3, <2>2 DEF Wanted
  <2>7. \A h \in Blockers(t) : \E u \in Users : h = lock[u] /\ h # NoTx
    BY <2>6 DEF Blockers
  <2> QED BY <1>1, <2>5, <2>7 DEF IInv, TypeOK
<1>4. CASE t \in Resets /\ t \notin Requests
  <2>1. target[t] \in scan[t] /\ lock[target[t]] # t /\ scan[t] \subseteq Users
    BY <1>4 DEF Busy, InFlight, CanStep, Positions, IInv, TypeOK
  <2>2. Exists(target[t]) /\ lock[target[t]] # NoTx
    BY <1>4, <2>1 DEF CanStep
  <2>3. Wanted(t) = {target[t]}
    BY <1>4, <2>1 DEF Wanted
  <2>4. target[t] \in Users
    BY <2>1
  <2>5. Blockers(t) = {lock[target[t]]}
    BY <2>1, <2>2, <2>3 DEF Blockers
  <2> QED BY <1>1, <2>4, <2>5, <2>2 DEF IInv, TypeOK
<1> QED BY <1>3, <1>4 DEF Busy, InFlight

\* A set that waits only for itself contains a smallest one that does, and the
\* smallest one is a ring: everybody in it is waited for by somebody in it.
LEMMA ClosedSetHasRing ==
  ASSUME IsFiniteSet(Txns), NEW R \in SUBSET Txns, R # {},
         \A t \in R : Blockers(t) # {} /\ Blockers(t) \subseteq R
  PROVE  \E t \in R : Deadlocked(t)
<1> DEFINE B == {C \in SUBSET R : C # {} /\ \A t \in C : Blockers(t) \subseteq C}
<1>1. IsFiniteSet(R)
  BY FS_Subset
<1>2. PICK C \in B : \A D \in SUBSET C : D # C => D \notin B
  <2>1. B \in SUBSET (SUBSET R) /\ R \in B
    OBVIOUS
  <2> HIDE DEF B
  <2> QED BY <1>1, <2>1, MinimalSubset
<1> DEFINE D == UNION {Blockers(x) : x \in C}
<1>3. D \in SUBSET C /\ D # {}
  BY <1>2
<1>4. \A t \in D : Blockers(t) \subseteq D
  BY <1>3
<1>5. D \in B
  BY <1>2, <1>3, <1>4
<1>6. D = C
  <2> HIDE DEF B, D
  <2> QED BY <1>2, <1>3, <1>5
<1>7. PICK t : t \in C
  BY <1>2
<1>8. C \in SUBSET Txns /\ t \in R
  BY <1>2, <1>7
<1> QED BY <1>6, <1>7, <1>8 DEF Deadlocked

\* With a pool of at least one connection, none of which a failed START
\* TRANSACTION has cost, nothing ever waits in vain: every wait leads to
\* somebody who can go on, or to a ring that the detector breaks.
THEOREM NobodyWaitsInVain ==
  ASSUME IsFiniteSet(Txns), PoolSize > 0, "begin" \notin Faults
  PROVE  Spec => []NoStandstill
<1>1. ASSUME IInv, Positions PROVE NoStandstill
  <2> SUFFICES ASSUME NEW W \in SUBSET Busy, W # {}, \A t \in W : WaitsFor(t) \subseteq W,
                      \A t \in W : ~CanStep(t)
               PROVE  FALSE
    BY DEF NoStandstill
  <2> DEFINE R == {t \in W : t \in Requests => pc[t] # "begin"}
  <2>1. R # {}
    <3>1. PICK t : t \in W
      OBVIOUS
    <3>2. CASE t \in Requests /\ pc[t] = "begin"
      <4>1. ~(Cardinality(conn) < PoolSize)
        BY <3>1, <3>2 DEF CanStep
      <4>2. conn \subseteq W
        BY <3>1, <3>2, <4>1 DEF WaitsFor
      <4>3. conn # {}
        BY <4>1, FS_EmptySet
      <4>4. \A q \in conn : pc[q] # "begin"
        BY <1>1 DEF Positions
      <4> QED BY <4>2, <4>3, <4>4
    <3> QED BY <3>1, <3>2
  <2>2. ASSUME NEW t \in R PROVE Blockers(t) # {} /\ Blockers(t) \subseteq R
    <3>1. t \in Busy /\ ~CanStep(t) /\ (t \in Requests => pc[t] # "begin")
      OBVIOUS
    <3>2. /\ Blockers(t) # {}
          /\ \A h \in Blockers(t) : h \in Txns /\ (h \in Requests => pc[h] # "begin")
      BY <1>1, <3>1, BlockedByHolder
    <3>3. Blockers(t) \subseteq W
      BY <3>1 DEF WaitsFor
    <3> QED BY <3>2, <3>3
  <2>3. R \in SUBSET Txns
    BY DEF Busy, InFlight
  <2> HIDE DEF R
  <2>4. PICK t \in R : Deadlocked(t)
    BY <2>1, <2>2, <2>3, ClosedSetHasRing
  <2> QED BY <2>4 DEF R, CanStep
<1> QED BY <1>1, Invariance, PositionsHold, PTL
-----------------------------------------------------------------------------
(* What the answers of transferMoney are worth                               *)

\* Where neither a COMMIT's answer nor a DEL is lost, "transfer failed" does
\* mean that no money moved: deadlocks, failed statements, failed STARTs and
\* crashes never make it a lie.
THEOREM FailedMeansNothingMoved ==
  ASSUME Faults \cap {"ack", "redis"} = {}
  PROVE  Spec => []FailedMeansNotApplied
<1>1. HonestOutcome => FailedMeansNotApplied
  BY DEF HonestOutcome, FailedMeansNotApplied
<1> QED BY <1>1, OutcomesAreHonest, PTL

\* Nobody is soft-deleted between the check that found them and their credit.
\* Nothing in the code sees to it.
NoLateDeletion ==
    [][\A u \in Users : status[u] = "active" /\ status'[u] = "deleted" =>
          \A r \in Requests : pc[r] \in {"begin", "debit", "credit"} => u # Receiver(r)]_vars

\* The receiver is still the live account it was checked to be, or gone.
StillLive ==
    \A r \in Requests : pc[r] \in {"begin"} \cup InTransaction =>
        status[Receiver(r)] \in {"active", "gone"}

\* A check finds a live receiver, and no other step of a request gives it
\* another one or touches a status.
LEMMA RequestKeepsLive ==
  ASSUME IInv, StillLive, NEW r \in Requests, Check(r) \/ Step(r) \/ Failure(r)
  PROVE  StillLive'
<1>1. status' = status /\ \A q \in Requests \ {r} : pc'[q] = pc[q] /\ call'[q] = call[q]
  BY DEF Check, Step, Failure, Begin, BeginFailure, Debit, DebitRefused, Credit, CreditRefused,
     StatementFailure, DeadlockVictim, RollBack, Undo, Write, Commit, CommitAckLost, Install,
     Invalidate, InvalidateFailure, Emit, Finish, Goto, rows, IInv, TypeOK
<1>2. pc'[r] \in {"begin"} \cup InTransaction => status[call'[r].to] \in {"active", "gone"}
  <2>1. CASE Check(r)
    BY <2>1 DEF Check, Goto, IInv, TypeOK
  <2>2. CASE Begin(r) \/ Debit(r) \/ Credit(r)
    BY <2>2 DEF Begin, Debit, Credit, Goto, StillLive, Receiver, IInv, TypeOK
  <2>3. CASE ~(Check(r) \/ Begin(r) \/ Debit(r) \/ Credit(r))
    <3>1. pc'[r] \in Ended \cup AfterCommit
      BY <2>3 DEF Step, Failure, BeginFailure, DebitRefused, CreditRefused,
         StatementFailure, DeadlockVictim, RollBack, Commit, CommitAckLost,
         Invalidate, InvalidateFailure, Emit, Finish, Goto, IInv, TypeOK
    <3> QED BY <3>1
  <2> QED BY <2>1, <2>2, <2>3
<1> QED BY <1>1, <1>2 DEF StillLive, Receiver

\* A transfer pays a soft-deleted account only if it was soft-deleted between
\* the transfer's check and its credit: no deletion before the one, no deletion
\* after the other and no restoration can bring that about.
THEOREM OnlyLateDeletionsArePaid == Spec /\ NoLateDeletion => ReceiverIsLive
<1> DEFINE Spared == \A u \in Users : status[u] = "active" /\ status'[u] = "deleted" =>
               \A r \in Requests : pc[r] \in {"begin", "debit", "credit"} => u # Receiver(r)
           Live == \A r \in applied' \ applied : status[Receiver(r)] = "active"
<1>1. Init => StillLive
  BY DEF Init, StillLive
<1>2. IInv /\ StillLive /\ [Next]_vars /\ [Spared]_vars => StillLive'
  <2> SUFFICES ASSUME IInv, StillLive, [Next]_vars, [Spared]_vars PROVE StillLive'
    OBVIOUS
  <2>1. ASSUME NEW u \in Users, Account(u), Spared PROVE StillLive'
    <3>1. UNCHANGED <<pc, call, lock>>
      BY <2>1 DEF Account, CreateUser, SoftDelete, Restore, HardDelete, SetStatus,
         IncreaseBalance, DecreaseBalance, flow
    <3>2. \A v \in Users : \/ status'[v] = status[v]
                           \/ status[v] = "unborn" /\ status'[v] = "active"
                           \/ status[v] = "active" /\ status'[v] = "deleted" /\ lock[v] = NoTx
                           \/ status[v] = "deleted" /\ status'[v] = "active"
                           \/ status'[v] = "gone"
      BY <2>1 DEF Account, CreateUser, SoftDelete, Restore, HardDelete, SetStatus,
         IncreaseBalance, DecreaseBalance, IInv, TypeOK
    <3>3. ASSUME NEW r \in Requests, pc[r] \in {"begin"} \cup InTransaction
          PROVE  status'[Receiver(r)] \in {"active", "gone"}
      <4>1. Receiver(r) \in Users /\ status[Receiver(r)] \in {"active", "gone"}
        BY <3>3, CallArguments DEF StillLive
      <4>2. pc[r] = "commit" => lock[Receiver(r)] # NoTx
        BY <3>3 DEF IInv, InFlightAccounts
      <4> QED BY <2>1, <3>2, <3>3, <4>1, <4>2
    <3> QED BY <3>1, <3>3 DEF StillLive, Receiver
  <2>2. ASSUME NEW w \in Resets, ResetStart(w) \/ ResetStep(w) \/ ResetFailure(w)
        PROVE  StillLive'
    <3>1. UNCHANGED <<status, pc, call>>
      BY <2>2 DEF ResetStart, ResetStep, ResetRow, ResetSkip, ResetCommit, ResetVictim,
         ResetFailure, Undo, Write, Install, rows, flow
    <3> QED BY <3>1 DEF StillLive, Receiver
  <2>3. CASE Crash
    <3>1. \A r \in Requests : pc'[r] \in Ended \cup {"idle"}
      BY <2>3 DEF Crash, InFlight, IInv, TypeOK
    <3> QED BY <3>1 DEF StillLive
  <2>4. CASE UNCHANGED vars
    BY <2>4 DEF vars, rows, flow, StillLive, Receiver
  <2>5. UNCHANGED vars \/ (Next /\ Spared)
    OBVIOUS
  <2> QED BY <2>1, <2>2, <2>3, <2>4, <2>5, RequestKeepsLive DEF Next
<1>3. IInv /\ StillLive /\ [Next]_vars => [Live]_vars
  <2> SUFFICES ASSUME IInv, StillLive, Next, NEW r \in applied' \ applied
               PROVE  status[Receiver(r)] = "active"
    OBVIOUS
  <2>1. r \in Requests /\ pc[r] = "commit"
    <3>1. ASSUME NEW q \in Requests, Check(q) \/ Step(q) \/ Failure(q)
          PROVE  applied' = applied \/ (applied' = applied \cup {q} /\ pc[q] = "commit")
      BY <3>1 DEF Check, Step, Failure, Begin, BeginFailure, Debit, DebitRefused, Credit,
         CreditRefused, StatementFailure, DeadlockVictim, RollBack, Commit, CommitAckLost,
         Invalidate, InvalidateFailure, Emit
    <3>2. ASSUME NEW w \in Resets, ResetStart(w) \/ ResetStep(w) \/ ResetFailure(w)
          PROVE  applied' = applied
      BY <3>2 DEF ResetStart, ResetStep, ResetRow, ResetSkip, ResetCommit, ResetVictim,
         ResetFailure, flow
    <3>3. ASSUME NEW u \in Users, Account(u) PROVE applied' = applied
      BY <3>3 DEF Account, CreateUser, SoftDelete, Restore, HardDelete, SetStatus,
         IncreaseBalance, DecreaseBalance, flow
    <3>4. Crash => applied' = applied
      BY DEF Crash
    <3> QED BY <3>1, <3>2, <3>3, <3>4 DEF Next
  <2>2. status[Receiver(r)] \in {"active", "gone"}
    BY <2>1 DEF StillLive
  <2>3. Receiver(r) \in Users /\ lock[Receiver(r)] = r
    BY <2>1, CallArguments DEF IInv, InFlightAccounts
  <2>4. Exists(Receiver(r))
    BY <2>1, <2>3 DEF IInv, InFlightAccounts
  <2> QED BY <2>2, <2>4
<1> QED BY <1>1, <1>2, <1>3, Invariance, PTL DEF Spec, NoLateDeletion, ReceiverIsLive
=============================================================================
