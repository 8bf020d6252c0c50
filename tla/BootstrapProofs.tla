--------------------------- MODULE BootstrapProofs ---------------------------
(***************************************************************************)
(* NoCrossTalk for any number of ranks, communicators and names.  Over the *)
(* caller's store the keys carry only a counter: there the ranks have to   *)
(* create their communicators in one order, and no call may throw.  Over   *)
(* the store manager's stores nothing is asked of them.                    *)
(***************************************************************************)
EXTENDS Bootstrap, SequenceTheorems, TLAPS

\* What the callers of createNcclComm keep to.
CallersAgree == \A m \in Modes : m.userStore => m.sameOrder /\ ~m.canFail

-----------------------------------------------------------------------------
(* The inductive invariant.  P is the order in which a caller's store sees  *)
(* the communicators created: the plan all ranks began with.                *)

Busy == {"exchange", "init", "joining", "cleanup", "created"}
KeyType == {<< >>} \cup (({<< >>} \cup {<<n>> : n \in Names}) \X Nat)

Types ==
    /\ mode \in Modes
    /\ plan \in [Ranks -> Seq(Names)]
    /\ pc \in [Ranks -> Busy \cup {"idle"}]
    /\ counter \in [Ranks -> Nat]
    /\ key \in [Ranks -> KeyType]
    /\ id \in [Ranks -> Nat]
    /\ store \subseteq KeyType \X (Nat \ {NoId})
    /\ drawn \in Nat

\* A rank inside a call is creating the head of its plan, and has an id from the exchange on.
CallInv ==
    \A r \in Ranks :
        /\ pc[r] \in Busy => plan[r] # << >>
        /\ pc[r] \in {"idle", "exchange"} => id[r] = NoId
        /\ pc[r] = "init" => id[r] # NoId

\* Over the caller's store counter_ counts the calls of the rank, the one at hand included.
PlanInv(P) ==
    UserStore =>
        \A r \in Ranks : \A i \in 1 .. Len(plan[r]) :
            plan[r][i] = IF pc[r] = "idle" THEN P[counter[r] + i] ELSE P[counter[r] + i - 1]

\* The name of the communicator that is created with a key.
NameOf(P, k) == IF UserStore THEN P[k[2] + 1] ELSE k[1][1]

KeyInv(P) == \A r \in Ranks : pc[r] = "exchange" => NameOf(P, key[r]) = Head(plan[r])

\* What ids stand for: in the store, in the calls at hand, and in NCCL.
Meanings(P) ==
    {<<e[2], NameOf(P, e[1])>> : e \in store}
    \cup {<<id[r], Head(plan[r])>> : r \in {q \in Ranks : id[q] # NoId}}
    \cup {<<j[1], j[3]>> : j \in joined}

\* Every id that is in use was drawn, and stands for one communicator.
IdInv(P) ==
    /\ \A m \in Meanings(P) : m[1] \in 1 .. drawn
    /\ \A m, n \in Meanings(P) : m[1] = n[1] => m[2] = n[2]

OrderedInv(P) == PlanInv(P) /\ KeyInv(P) /\ IdInv(P)

BootstrapInv ==
    /\ Types
    /\ CallInv
    /\ \E P \in [1 .. mode.maxComms -> Names] : OrderedInv(P)

-----------------------------------------------------------------------------
(* What the steps keep.                                                     *)

\* Initially no rank has an id, the store is empty, and the plan of any rank is the order.
LEMMA InitInv == CallersAgree /\ Init => BootstrapInv
<1> SUFFICES ASSUME CallersAgree, Init PROVE BootstrapInv
  OBVIOUS
<1> USE BootstrapAssumption
<1>1. mode \in Modes /\ mode.maxComms \in Nat /\ 0 \in Ranks
  BY DEF Init, ModeType, Ranks
<1>2. \A r \in Ranks : plan[r] \in [1 .. mode.maxComms -> Names] /\ plan[r] \in Seq(Names)
  <2> SUFFICES ASSUME NEW r \in Ranks
               PROVE  plan[r] \in [1 .. mode.maxComms -> Names] /\ plan[r] \in Seq(Names)
    OBVIOUS
  <2>1. plan[r] \in [1 .. mode.maxComms -> Names]
    BY DEF Init
  <2> QED BY <1>1, <2>1, SeqDef
<1>3. Types
  BY <1>1, <1>2 DEF Init, Types, Busy, KeyType, NoId
<1>4. CallInv
  BY DEF Init, CallInv, Busy
<1>5. PlanInv(plan[0])
  <2> SUFFICES ASSUME UserStore, NEW r \in Ranks, NEW i \in 1 .. Len(plan[r])
               PROVE  plan[r][i] = plan[0][counter[r] + i]
    BY DEF PlanInv, Init
  <2>1. plan[r] = plan[0]
    BY <1>1 DEF Init, CallersAgree, UserStore
  <2>2. counter[r] + i = i
    BY DEF Init
  <2> QED BY <2>1, <2>2
<1>6. KeyInv(plan[0])
  BY DEF Init, KeyInv
<1>7. Meanings(plan[0]) = {}
  BY DEF Init, Meanings
<1>8. IdInv(plan[0])
  BY <1>7 DEF IdInv
<1> QED BY <1>1, <1>2, <1>3, <1>4, <1>5, <1>6, <1>8 DEF BootstrapInv, OrderedInv

\* Every step keeps the types.
LEMMA StepTypes == Types /\ CallInv /\ [Next]_vars => Types'
<1> SUFFICES ASSUME Types, CallInv, [Next]_vars PROVE Types'
  OBVIOUS
<1> USE DEF Types, goto, Busy, NoId
<1>1. CASE PublishId
  <2>1. 0 \in Ranks
    BY BootstrapAssumption DEF Ranks
  <2>2. <<key[0], drawn + 1>> \in KeyType \X (Nat \ {NoId})
    BY <2>1
  <2> QED BY <1>1, <2>1, <2>2 DEF PublishId
<1>2. ASSUME NEW r \in Ranks, Begin(r) PROVE Types'
  <2>1. Head(plan[r]) \in Names
    BY <1>2 DEF Begin
  <2>2. NewKey(r) \in KeyType
    BY <2>1 DEF NewKey, Prefix, KeyType
  <2> QED BY <1>2, <2>2 DEF Begin, Advanced
<1>3. ASSUME NEW r \in Ranks, PrefixReused(r) PROVE Types'
  BY <1>3 DEF PrefixReused
<1>4. ASSUME NEW r \in Ranks, ReadId(r) PROVE Types'
  BY <1>4 DEF ReadId
<1>5. ASSUME NEW r \in Ranks, CallInit(r) PROVE Types'
  BY <1>5 DEF CallInit
<1>6. ASSUME NEW r \in Ranks, InitReturns(r) PROVE Types'
  BY <1>6 DEF InitReturns
<1>7. ASSUME NEW r \in Ranks, CleanupReturns(r) PROVE Types'
  BY <1>7 DEF CleanupReturns
<1>8. ASSUME NEW r \in Ranks, Return(r) PROVE Types'
  <2>1. plan[r] # << >>
    BY <1>8 DEF Return, CallInv
  <2> QED BY <1>8, <2>1 DEF Return
<1>9. ASSUME NEW r \in Ranks, Throw(r) PROVE Types'
  <2>1. plan[r] # << >>
    BY <1>9 DEF Throw, CallInv
  <2> QED BY <1>9, <2>1 DEF Throw
<1>10. CASE UNCHANGED vars
  BY <1>10 DEF vars
<1> QED BY <1>1, <1>2, <1>3, <1>4, <1>5, <1>6, <1>7, <1>8, <1>9, <1>10 DEF Next

\* A call begins with a plan that is not empty and without an id, and ends without one.
LEMMA StepCall == Types /\ CallInv /\ [Next]_vars => CallInv'
<1> SUFFICES ASSUME Types, CallInv, [Next]_vars PROVE CallInv'
  OBVIOUS
<1> USE DEF Types, CallInv, goto, Busy, NoId
<1>1. CASE PublishId
  BY <1>1 DEF PublishId
<1>2. ASSUME NEW r \in Ranks, Begin(r) PROVE CallInv'
  BY <1>2 DEF Begin
<1>3. ASSUME NEW r \in Ranks, PrefixReused(r) PROVE CallInv'
  BY <1>3 DEF PrefixReused
<1>4. ASSUME NEW r \in Ranks, ReadId(r) PROVE CallInv'
  BY <1>4 DEF ReadId
<1>5. ASSUME NEW r \in Ranks, CallInit(r) PROVE CallInv'
  BY <1>5 DEF CallInit
<1>6. ASSUME NEW r \in Ranks, InitReturns(r) PROVE CallInv'
  BY <1>6 DEF InitReturns
<1>7. ASSUME NEW r \in Ranks, CleanupReturns(r) PROVE CallInv'
  BY <1>7 DEF CleanupReturns
<1>8. ASSUME NEW r \in Ranks, Return(r) PROVE CallInv'
  BY <1>8 DEF Return
<1>9. ASSUME NEW r \in Ranks, Throw(r) PROVE CallInv'
  BY <1>9 DEF Throw
<1>10. CASE UNCHANGED vars
  BY <1>10 DEF vars
<1> QED BY <1>1, <1>2, <1>3, <1>4, <1>5, <1>6, <1>7, <1>8, <1>9, <1>10 DEF Next

\* The plan that is left and the counter move together; over the caller's store no call throws.
LEMMA StepPlan ==
    ASSUME CallersAgree, Types, CallInv, [Next]_vars, NEW P, PlanInv(P)
    PROVE  PlanInv(P)'
<1> SUFFICES ASSUME UserStore' PROVE PlanInv(P)'
  BY DEF PlanInv
<1>0. mode' = mode /\ UserStore /\ ~CanFail
  BY DEF Next, vars, PublishId, Begin, PrefixReused, ReadId, CallInit, InitReturns,
         CleanupReturns, Return, Throw, UserStore, CanFail, CallersAgree, Types
<1>a. \A r \in Ranks : \A i \in 1 .. Len(plan[r]) :
        plan[r][i] = IF pc[r] = "idle" THEN P[counter[r] + i] ELSE P[counter[r] + i - 1]
  BY <1>0 DEF PlanInv
<1> USE DEF Types, goto, Busy, NoId
<1>1. CASE PublishId
  BY <1>1, <1>a DEF PublishId, PlanInv
<1>2. ASSUME NEW r \in Ranks, Begin(r) PROVE PlanInv(P)'
  <2> SUFFICES ASSUME NEW q \in Ranks, NEW i \in 1 .. Len(plan[q])
               PROVE  plan[q][i] = IF pc'[q] = "idle" THEN P[counter'[q] + i]
                                                      ELSE P[counter'[q] + i - 1]
    BY <1>2 DEF Begin, PlanInv
  <2>1. CASE q = r
    <3>1. plan[q][i] = P[counter[q] + i] /\ pc'[q] # "idle"
      BY <1>2, <1>a, <2>1 DEF Begin
    <3>2. counter'[q] + i - 1 = counter[q] + i
      BY <1>2, <2>1 DEF Begin, Advanced
    <3> QED BY <3>1, <3>2
  <2>2. CASE q # r
    BY <1>2, <1>a, <2>2 DEF Begin
  <2> QED BY <2>1, <2>2
<1>3. ASSUME NEW r \in Ranks, PrefixReused(r) PROVE PlanInv(P)'
  BY <1>3, <1>0 DEF PrefixReused
<1>4. ASSUME NEW r \in Ranks, ReadId(r) PROVE PlanInv(P)'
  BY <1>4, <1>a DEF ReadId, PlanInv
<1>5. ASSUME NEW r \in Ranks, CallInit(r) PROVE PlanInv(P)'
  BY <1>5, <1>a DEF CallInit, PlanInv
<1>6. ASSUME NEW r \in Ranks, InitReturns(r) PROVE PlanInv(P)'
  BY <1>6, <1>a DEF InitReturns, PlanInv
<1>7. ASSUME NEW r \in Ranks, CleanupReturns(r) PROVE PlanInv(P)'
  BY <1>7, <1>a DEF CleanupReturns, PlanInv
<1>8. ASSUME NEW r \in Ranks, Return(r) PROVE PlanInv(P)'
  <2> SUFFICES ASSUME NEW q \in Ranks, NEW i \in 1 .. Len(plan'[q])
               PROVE  plan'[q][i] = IF pc'[q] = "idle" THEN P[counter[q] + i]
                                                       ELSE P[counter[q] + i - 1]
    BY <1>8 DEF Return, PlanInv
  <2>1. CASE q = r
    <3>1. plan[q] \in Seq(Names) /\ plan[q] # << >> /\ plan'[q] = Tail(plan[q])
      BY <1>8, <2>1 DEF Return, CallInv
    <3>2. i + 1 \in 1 .. Len(plan[q]) /\ plan'[q][i] = plan[q][i + 1]
      BY <3>1
    <3>3. plan[q][i + 1] = P[counter[q] + (i + 1) - 1] /\ pc'[q] = "idle"
      BY <1>8, <1>a, <2>1, <3>2 DEF Return
    <3>4. counter[q] + (i + 1) - 1 = counter[q] + i
      OBVIOUS
    <3> QED BY <3>2, <3>3, <3>4
  <2>2. CASE q # r
    BY <1>8, <1>a, <2>2 DEF Return
  <2> QED BY <2>1, <2>2
<1>9. ASSUME NEW r \in Ranks, Throw(r) PROVE PlanInv(P)'
  BY <1>9, <1>0 DEF Throw
<1>10. CASE UNCHANGED vars
  BY <1>10, <1>a DEF vars, PlanInv
<1> QED BY <1>1, <1>2, <1>3, <1>4, <1>5, <1>6, <1>7, <1>8, <1>9, <1>10 DEF Next

\* A key is made for the communicator at the head of the plan.
LEMMA StepKey ==
    ASSUME Types, CallInv, [Next]_vars, NEW P, PlanInv(P), KeyInv(P)
    PROVE  KeyInv(P)'
<1> USE DEF Types, goto, Busy, KeyInv, NameOf, UserStore
<1>1. CASE PublishId
  BY <1>1 DEF PublishId
<1>2. ASSUME NEW r \in Ranks, Begin(r) PROVE KeyInv(P)'
  <2>1. CASE UserStore
    <3>1. 1 \in 1 .. Len(plan[r]) /\ Head(plan[r]) = plan[r][1]
      BY <1>2 DEF Begin
    <3>2. Head(plan[r]) = P[counter[r] + 1]
      BY <1>2, <2>1, <3>1 DEF Begin, PlanInv
    <3>3. NewKey(r) = << << >>, counter[r]>>
      BY <2>1 DEF NewKey, Prefix
    <3> QED BY <1>2, <2>1, <3>2, <3>3 DEF Begin
  <2>2. CASE ~UserStore
    BY <1>2, <2>2 DEF Begin, NewKey, Prefix
  <2> QED BY <2>1, <2>2
<1>3. ASSUME NEW r \in Ranks, PrefixReused(r) PROVE KeyInv(P)'
  BY <1>3 DEF PrefixReused
<1>4. ASSUME NEW r \in Ranks, ReadId(r) PROVE KeyInv(P)'
  BY <1>4 DEF ReadId
<1>5. ASSUME NEW r \in Ranks, CallInit(r) PROVE KeyInv(P)'
  BY <1>5 DEF CallInit
<1>6. ASSUME NEW r \in Ranks, InitReturns(r) PROVE KeyInv(P)'
  BY <1>6 DEF InitReturns
<1>7. ASSUME NEW r \in Ranks, CleanupReturns(r) PROVE KeyInv(P)'
  BY <1>7 DEF CleanupReturns
<1>8. ASSUME NEW r \in Ranks, Return(r) PROVE KeyInv(P)'
  BY <1>8 DEF Return
<1>9. ASSUME NEW r \in Ranks, Throw(r) PROVE KeyInv(P)'
  BY <1>9 DEF Throw
<1>10. CASE UNCHANGED vars
  BY <1>10 DEF vars
<1> QED BY <1>1, <1>2, <1>3, <1>4, <1>5, <1>6, <1>7, <1>8, <1>9, <1>10 DEF Next

\* No step but rank 0's drawing of an id gives an id a meaning it did not have.
LEMMA NoNewMeaning ==
    ASSUME Types, CallInv, [Next]_vars, ~PublishId, NEW P, KeyInv(P)
    PROVE  Meanings(P)' \subseteq Meanings(P) /\ drawn' = drawn
<1> USE DEF Types, goto, Busy, NoId, Meanings, NameOf, UserStore
<1>2. ASSUME NEW r \in Ranks, Begin(r) PROVE Meanings(P)' \subseteq Meanings(P) /\ drawn' = drawn
  BY <1>2 DEF Begin
<1>3. ASSUME NEW r \in Ranks, PrefixReused(r)
      PROVE  Meanings(P)' \subseteq Meanings(P) /\ drawn' = drawn
  BY <1>3 DEF PrefixReused, CallInv
<1>4. ASSUME NEW r \in Ranks, ReadId(r)
      PROVE  Meanings(P)' \subseteq Meanings(P) /\ drawn' = drawn
  <2>1. PICK e \in store : e[1] = key[r] /\ id' = [id EXCEPT ![r] = e[2]]
    BY <1>4 DEF ReadId
  <2>2. NameOf(P, e[1]) = Head(plan[r])
    BY <1>4, <2>1 DEF ReadId, KeyInv
  <2> QED BY <1>4, <2>1, <2>2 DEF ReadId
<1>5. ASSUME NEW r \in Ranks, CallInit(r)
      PROVE  Meanings(P)' \subseteq Meanings(P) /\ drawn' = drawn
  BY <1>5 DEF CallInit, CallInv
<1>6. ASSUME NEW r \in Ranks, InitReturns(r)
      PROVE  Meanings(P)' \subseteq Meanings(P) /\ drawn' = drawn
  BY <1>6 DEF InitReturns
<1>7. ASSUME NEW r \in Ranks, CleanupReturns(r)
      PROVE  Meanings(P)' \subseteq Meanings(P) /\ drawn' = drawn
  BY <1>7 DEF CleanupReturns
<1>8. ASSUME NEW r \in Ranks, Return(r)
      PROVE  Meanings(P)' \subseteq Meanings(P) /\ drawn' = drawn
  BY <1>8 DEF Return
<1>9. ASSUME NEW r \in Ranks, Throw(r)
      PROVE  Meanings(P)' \subseteq Meanings(P) /\ drawn' = drawn
  BY <1>9 DEF Throw
<1>10. ASSUME UNCHANGED vars PROVE Meanings(P)' \subseteq Meanings(P) /\ drawn' = drawn
  BY <1>10 DEF vars
<1> QED
  BY <1>2, <1>3, <1>4, <1>5, <1>6, <1>7, <1>8, <1>9, <1>10 DEF Next

\* Ids keep their one meaning: a new one gets its key's name and the name of rank 0's call.
LEMMA StepIds ==
    ASSUME Types, CallInv, [Next]_vars, NEW P, KeyInv(P), IdInv(P)
    PROVE  IdInv(P)'
<1>1. CASE ~PublishId
  <2>1. Meanings(P)' \subseteq Meanings(P) /\ drawn' = drawn
    BY <1>1, NoNewMeaning
  <2> QED BY <2>1 DEF IdInv
<1>2. CASE PublishId
  <2> DEFINE new == <<drawn + 1, Head(plan[0])>>
  <2>1. 0 \in Ranks /\ drawn \in Nat /\ NameOf(P, key[0]) = Head(plan[0])
    BY <1>2, BootstrapAssumption DEF Types, Ranks, KeyInv, PublishId
  <2>2. Meanings(P)' \subseteq Meanings(P) \cup {new}
    BY <1>2, <2>1 DEF Meanings, PublishId, Types, NameOf, UserStore
  <2>3. drawn' = drawn + 1
    BY <1>2 DEF PublishId
  <2>4. \A m \in Meanings(P) : m[1] \in 1 .. drawn /\ m[1] # new[1]
    BY <2>1 DEF IdInv
  <2>5. \A m \in Meanings(P)' : m[1] \in 1 .. drawn'
    BY <2>1, <2>2, <2>3, <2>4
  <2>6. ASSUME NEW m \in Meanings(P)', NEW n \in Meanings(P)', m[1] = n[1] PROVE m[2] = n[2]
    <3>1. (m \in Meanings(P) /\ n \in Meanings(P)) \/ (m = new /\ n = new)
      <4>1. m \in Meanings(P) \/ m = new
        BY <2>2
      <4>2. n \in Meanings(P) \/ n = new
        BY <2>2
      <4> QED BY <4>1, <4>2, <2>4, <2>6
    <3> QED BY <2>6, <3>1 DEF IdInv
  <2> QED BY <2>5, <2>6 DEF IdInv
<1> QED BY <1>1, <1>2

\* The invariant is inductive: the order the ranks began with stays the witness.
LEMMA StepInv == CallersAgree /\ BootstrapInv /\ [Next]_vars => BootstrapInv'
<1> SUFFICES ASSUME CallersAgree, BootstrapInv, [Next]_vars PROVE BootstrapInv'
  OBVIOUS
<1>1. Types /\ CallInv
  BY DEF BootstrapInv
<1>2. PICK P \in [1 .. mode.maxComms -> Names] : OrderedInv(P)
  BY DEF BootstrapInv
<1>3. mode' = mode
  BY DEF Next, vars, PublishId, Begin, PrefixReused, ReadId, CallInit, InitReturns,
         CleanupReturns, Return, Throw
<1>4. Types' /\ CallInv'
  BY <1>1, StepTypes, StepCall
<1>5. PlanInv(P)' /\ KeyInv(P)' /\ IdInv(P)'
  BY <1>1, <1>2, StepPlan, StepKey, StepIds DEF OrderedInv
<1> QED BY <1>3, <1>4, <1>5 DEF BootstrapInv, OrderedInv

\* What NCCL was given under one id are uses of that id, so they name one communicator.
LEMMA InvNoCrossTalk == BootstrapInv => NoCrossTalk
<1> SUFFICES ASSUME BootstrapInv, NEW j \in joined, NEW k \in joined, j[1] = k[1]
             PROVE  j[3] = k[3]
  BY DEF NoCrossTalk
<1>1. PICK P \in [1 .. mode.maxComms -> Names] : IdInv(P)
  BY DEF BootstrapInv, OrderedInv
<1>2. <<j[1], j[3]>> \in Meanings(P) /\ <<k[1], k[3]>> \in Meanings(P)
  BY DEF Meanings
<1> QED BY <1>1, <1>2 DEF IdInv

\* createNcclComm: whatever the interleaving of the ranks, ranks that NCCL brings together
\* under one id are creating the same communicator, for any number of ranks, names and
\* communicators; over the store manager's stores also when calls throw and when the ranks
\* create their communicators in different orders.
THEOREM IdsDoNotCross == ASSUME CallersAgree PROVE Spec => []NoCrossTalk
<1>1. Init => BootstrapInv
  BY InitInv
<1>2. BootstrapInv /\ [Next]_vars => BootstrapInv'
  BY StepInv
<1>3. BootstrapInv => NoCrossTalk
  BY InvNoCrossTalk
<1> QED BY <1>1, <1>2, <1>3, PTL DEF Spec
=============================================================================
