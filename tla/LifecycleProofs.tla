--------------------------- MODULE LifecycleProofs ---------------------------
(***************************************************************************)
(* A driver whose table follows the rules of LifecycleRules keeps the      *)
(* promises of Lifecycle, whatever fails and whoever calls it when.  The   *)
(* run bringup checks the rules for the 54 tables of the repository.       *)
(***************************************************************************)
EXTENDS LifecycleRules, FiniteSetTheorems, SequenceTheorems, TLAPS

Alive == held \cup armed

-----------------------------------------------------------------------------
(* The inductive invariant, part by part. *)

PhaseOK ==
  /\ phase = "absent" => pc = 1
  /\ phase \in {"absent", "probing"} => result = "none"
  /\ phase = "unwinding" =>
       /\ pc \in Failing(driver) /\ result = Steps(driver)[pc].fails
       /\ ToSet(todo) \subseteq ToSet(Steps(driver)[pc].undo)
  /\ phase \notin {"unwinding", "removing"} => todo = <<>>
  /\ phase \in {"absent", "gone"} => devres = <<>>

(* Only what the probe has got to can be live. *)
Bounded == Alive \subseteq Live(driver, pc)

(* What the probe can rely on, and what it leaves when it has returned. *)
CertainHeld ==
  /\ phase = "probing" => Certain(driver, pc) \subseteq held
  /\ phase = "unwinding" => Left(driver, pc) \subseteq held
  /\ phase = "up" =>
       \/ pc = Done(driver) /\ Certain(driver, Done(driver)) \subseteq held
       \/ pc \in GivesUp(driver) /\ Left(driver, pc) \subseteq held

(* What is still to be released is held, once. *)
ReleasesFind == Finds(driver, todo, held)

RemoveWillRun == phase = "up" \/ (phase = "unwinding" /\ result = "success")

(* Everything held is released by what runs, by the remove function that   *)
(* will run, or by the core, unless it is known to be left behind.         *)
Accounted ==
  \A r \in held :
    \/ <<driver, r>> \in KnownLeaks
    \/ r \in Facts(driver) /\ phase # "gone"
    \/ r \in ToSet(devres)
    \/ phase = "probing" /\ r \in Owned(driver, pc)
    \/ phase \in {"unwinding", "removing"} /\ r \in ToSet(todo)
    \/ RemoveWillRun /\ r \in ToSet(this.remove)

(* What is live has what it needs. *)
Served ==
  phase # "probing" => \A p \in LatePairs(driver) : p[1] \in Alive => p[2] \in held

(* ... and is stopped before what it needs is released. *)
Stopped ==
  /\ phase \in {"unwinding", "removing"} => InOrder(driver, todo, Alive)
  /\ phase \in {"removing", "releasing"} => Settles(driver, todo, Alive)
  /\ phase = "unwinding" /\ result = "error" => Settles(driver, todo, Alive)

ManagedBy(d, r, b) == Steps(d)[b].kind = "managed" /\ r \in Steps(d)[b].gets

OnlyManaged(d, r) ==
  /\ r \in CoreReleases(d)
  /\ \A b \in DOMAIN Steps(d) : r \in Steps(d)[b].gets => Steps(d)[b].kind = "managed"

(* The core's list has the managed resources in the order of the probe. *)
DevresOrdered ==
  /\ \A k \in DOMAIN devres : \E b \in 1 .. pc - 1 : ManagedBy(driver, devres[k], b)
  /\ \A j, k \in DOMAIN devres : j < k =>
       \E a, b \in 1 .. pc - 1 : a < b /\ ManagedBy(driver, devres[j], a) /\ ManagedBy(driver, devres[k], b)
  /\ \A r \in held : OnlyManaged(driver, r) => r \in ToSet(devres)

IInv ==
  /\ FollowsRules(driver)
  /\ TypeOK
  /\ PhaseOK
  /\ Bounded
  /\ CertainHeld
  /\ ReleasesFind
  /\ Accounted
  /\ Served
  /\ Stopped
  /\ DevresOrdered

-----------------------------------------------------------------------------
(* The rules, on their own. *)

LEMMA StepsCounted ==
  ASSUME NEW d, WellFormed(d)
  PROVE  Len(Steps(d)) \in Nat /\ DOMAIN Steps(d) = 1 .. Len(Steps(d))
<1> DEFINE S == { Steps(d)[i] : i \in DOMAIN Steps(d) }
<1>1. Steps(d) \in Seq(S)
  BY DEF WellFormed
<1>2. QED
  BY <1>1, LenProperties

(* What is certain, possible and owned grows step by step. *)
LEMMA OneStepMore ==
  ASSUME NEW d, WellFormed(d), NEW i \in 1 .. Len(Steps(d))
  PROVE  /\ Certain(d, i) \subseteq Certain(d, i + 1)
         /\ Certain(d, i + 1) \subseteq Certain(d, i) \cup Steps(d)[i].gets
         /\ Steps(d)[i].fails = "unnoticed" => Certain(d, i + 1) = Certain(d, i)
         /\ Acquired(d, i + 1) = Acquired(d, i) \cup Steps(d)[i].gets \cup Steps(d)[i].arms
         /\ Owned(d, i) \subseteq Owned(d, i + 1)
         /\ Steps(d)[i].kind = "owned" => Steps(d)[i].gets \subseteq Owned(d, i + 1)
<1>1. i \in Nat /\ 1 .. (i + 1) - 1 = (1 .. i - 1) \cup {i}
  BY StepsCounted
<1>2. QED
  BY <1>1 DEF Certain, Acquired, Owned

LEMMA LiveGrows ==
  ASSUME NEW d, NEW i, NEW j, Acquired(d, i) \subseteq Acquired(d, j)
  PROVE  Live(d, i) \subseteq Live(d, j)
BY DEF Live

LEMMA AllStepsMost ==
  ASSUME NEW d, WellFormed(d), NEW i \in 1 .. Done(d)
  PROVE  Live(d, i) \subseteq Live(d, Done(d)) /\ Owned(d, i) \subseteq Owned(d, Done(d))
<1>1. 1 .. i - 1 \subseteq 1 .. Done(d) - 1
  BY StepsCounted DEF Done
<1>2. Acquired(d, i) \subseteq Acquired(d, Done(d)) /\ Owned(d, i) \subseteq Owned(d, Done(d))
  BY <1>1 DEF Acquired, Owned
<1>3. QED
  BY <1>2, LiveGrows

(* An activity arms nothing but itself, so nothing more becomes live by calls. *)
LEMMA CallsStayWithin ==
  ASSUME NEW d, WellFormed(d), NEW i, NEW c \in Calls(d), c.via \in Live(d, i)
  PROVE  c.arms \subseteq Live(d, i)
<1>1. CASE c.via \in Acquired(d, i)
  BY <1>1 DEF Live
<1>2. CASE c.via \notin Acquired(d, i)
  <2>1. PICK e \in Calls(d) : c.via \in e.arms
    BY <1>2 DEF Live
  <2>2. c.via \in Activities(d)
    BY <2>1 DEF Activities
  <2>3. QED
    BY <2>2 DEF WellFormed
<1>3. QED
  BY <1>1, <1>2

-----------------------------------------------------------------------------
(* Being stopped for good. *)

LEMMA QuietOfFewer ==
  ASSUME NEW d, NEW v, NEW A, NEW B, B \subseteq A, Quiet(d, v, A)
  PROVE  Quiet(d, v, B)
BY DEF Quiet

LEMMA StoppedOfFewer ==
  ASSUME NEW d, NEW L, NEW k, NEW v, NEW A, NEW B, B \subseteq A, StoppedBy(d, L, k, v, A)
  PROVE  StoppedBy(d, L, k, v, B)
BY DEF Quiet, StoppedBy

LEMMA InOrderOfFewer ==
  ASSUME NEW d, NEW L, NEW A, NEW B, B \subseteq A, InOrder(d, L, A)
  PROVE  InOrder(d, L, B)
BY StoppedOfFewer DEF InOrder

LEMMA SettlesOfFewer ==
  ASSUME NEW d, NEW L, NEW A, NEW B, B \subseteq A, Settles(d, L, A)
  PROVE  Settles(d, L, B)
BY StoppedOfFewer DEF Settles

(* A call cannot arm what is stopped for good. *)
LEMMA StoppedThroughCall ==
  ASSUME NEW d, WellFormed(d), NEW L, NEW k, NEW v, NEW A, NEW c \in Calls(d), c.via \in A,
         NEW B, B \subseteq A \cup c.arms, StoppedBy(d, L, k, v, A)
  PROVE  StoppedBy(d, L, k, v, B)
<1>1. ASSUME NEW e \in Calls(d), v \in e.arms, e.via \in c.arms
      PROVE  e.via = v
  BY <1>1 DEF WellFormed, Activities
<1>2. CASE Quiet(d, v, A)
  BY <1>1, <1>2 DEF Quiet, StoppedBy
<1>3. CASE ~ Quiet(d, v, A)
  BY <1>1, <1>3 DEF StoppedBy
<1>4. QED
  BY <1>2, <1>3

LEMMA InOrderThroughCall ==
  ASSUME NEW d, WellFormed(d), NEW L, NEW A, NEW c \in Calls(d), c.via \in A,
         NEW B, B \subseteq A \cup c.arms, InOrder(d, L, A)
  PROVE  InOrder(d, L, B)
BY StoppedThroughCall DEF InOrder

LEMMA SettlesThroughCall ==
  ASSUME NEW d, WellFormed(d), NEW L, NEW A, NEW c \in Calls(d), c.via \in A,
         NEW B, B \subseteq A \cup c.arms, Settles(d, L, A)
  PROVE  Settles(d, L, B)
BY StoppedThroughCall DEF Settles

LEMMA ItemOf == \A L : \A k \in DOMAIN L : L[k] \in ToSet(L)
BY DEF ToSet

(* The first release of a list is carried out. *)
LEMMA TailItems ==
  ASSUME NEW T, NEW L \in Seq(T), L # <<>>
  PROVE  /\ Len(L) \in Nat \ {0} /\ Head(L) = L[1] /\ Tail(L) \in Seq(T)
         /\ Len(Tail(L)) = Len(L) - 1
         /\ \A k \in 1 .. Len(L) - 1 : Tail(L)[k] = L[k + 1]
         /\ DOMAIN L = 1 .. Len(L) /\ DOMAIN Tail(L) = 1 .. Len(L) - 1
         /\ ToSet(Tail(L)) \subseteq ToSet(L) /\ Head(L) \in ToSet(L)
         /\ ToSet(L) \subseteq ToSet(Tail(L)) \cup {Head(L)}
<1>1. Len(L) \in Nat \ {0} /\ Head(L) = L[1] /\ Tail(L) \in Seq(T) /\ Len(Tail(L)) = Len(L) - 1
      /\ \A k \in 1 .. Len(L) - 1 : Tail(L)[k] = L[k + 1]
  BY EmptySeq, LenProperties, HeadTailProperties
<1>2. DOMAIN L = 1 .. Len(L) /\ DOMAIN Tail(L) = 1 .. Len(L) - 1
  BY <1>1, LenProperties
<1>3. ToSet(Tail(L)) \subseteq ToSet(L) /\ Head(L) \in ToSet(L)
  BY <1>1, <1>2 DEF ToSet
<1>4. ASSUME NEW k \in 1 .. Len(L) PROVE L[k] \in ToSet(Tail(L)) \cup {Head(L)}
  <2>1. CASE k = 1
    BY <1>1, <2>1
  <2>2. CASE k # 1
    <3>1. k - 1 \in 1 .. Len(L) - 1 /\ Tail(L)[k - 1] = L[k]
      BY <1>1, <2>2
    <3>2. QED
      BY <1>2, <3>1 DEF ToSet
  <2>3. QED
    BY <2>1, <2>2
<1>5. QED
  BY <1>1, <1>2, <1>3, <1>4 DEF ToSet

LEMMA StoppedThroughRelease ==
  ASSUME NEW d, NEW T, NEW L \in Seq(T), L # <<>>, NEW k \in 1 .. Len(L), NEW v, NEW A,
         StoppedBy(d, L, k + 1, v, A)
  PROVE  StoppedBy(d, Tail(L), k, v, A \ {Head(L)})
<1> DEFINE B == A \ {Head(L)}
<1>1. CASE Quiet(d, v, A)
  BY <1>1 DEF Quiet, StoppedBy
<1>2. CASE ~ Quiet(d, v, A)
  <2>1. PICK j \in 1 .. k :
          /\ L[j] = v
          /\ \A c \in Calls(d) : v \in c.arms /\ c.via # v =>
               c.via \notin A \/ \E i \in 1 .. j - 1 : L[i] = c.via
    BY <1>2, TailItems DEF StoppedBy
  <2>2. CASE j = 1
    BY <2>1, <2>2, TailItems DEF Quiet, StoppedBy
  <2>3. CASE j # 1
    <3>1. j - 1 \in 1 .. k - 1 /\ Tail(L)[j - 1] = v
      BY <2>1, <2>3, TailItems
    <3>2. ASSUME NEW c \in Calls(d), v \in c.arms, c.via # v
          PROVE  c.via \notin B \/ \E i \in 1 .. (j - 1) - 1 : Tail(L)[i] = c.via
      <4>1. CASE c.via \notin A
        BY <4>1
      <4>2. ASSUME NEW i \in 1 .. j - 1, L[i] = c.via
            PROVE  c.via = Head(L) \/ (i - 1 \in 1 .. (j - 1) - 1 /\ Tail(L)[i - 1] = c.via)
        BY <4>2, TailItems
      <4>3. QED
        BY <2>1, <3>2, <4>1, <4>2
    <3>3. QED
      BY <3>1, <3>2 DEF StoppedBy
  <2>4. QED
    BY <2>2, <2>3
<1>3. QED
  BY <1>1, <1>2

LEMMA FirstIsStopped ==
  ASSUME NEW d, NEW L, NEW v, NEW A, StoppedBy(d, L, 1, v, A)
  PROVE  Quiet(d, v, A)
BY DEF StoppedBy

LEMMA InOrderThroughRelease ==
  ASSUME NEW d, NEW T, NEW L \in Seq(T), L # <<>>, NEW A, InOrder(d, L, A)
  PROVE  /\ InOrder(d, Tail(L), A \ {Head(L)})
         /\ \A p \in LatePairs(d) : Head(L) = p[2] => p[1] \notin A
<1>1. ASSUME NEW p \in LatePairs(d), NEW k \in DOMAIN Tail(L), Tail(L)[k] = p[2]
      PROVE  StoppedBy(d, Tail(L), k, p[1], A \ {Head(L)})
  <2>1. k \in 1 .. Len(L) /\ k + 1 \in DOMAIN L /\ L[k + 1] = p[2]
    BY <1>1, TailItems
  <2>2. StoppedBy(d, L, k + 1, p[1], A)
    BY <2>1 DEF InOrder
  <2>3. QED
    BY <2>1, <2>2, StoppedThroughRelease
<1>2. ASSUME NEW p \in LatePairs(d), Head(L) = p[2] PROVE p[1] \notin A
  <2>1. 1 \in DOMAIN L /\ L[1] = p[2]
    BY <1>2, TailItems
  <2>2. QED
    BY <2>1, FirstIsStopped DEF InOrder, Quiet
<1>3. QED
  BY <1>1, <1>2 DEF InOrder

LEMMA SettlesThroughRelease ==
  ASSUME NEW d, NEW T, NEW L \in Seq(T), L # <<>>, NEW A, Settles(d, L, A)
  PROVE  Settles(d, Tail(L), A \ {Head(L)})
<1>1. Len(L) \in 1 .. Len(L) /\ Len(Tail(L)) + 1 = Len(L)
  BY TailItems
<1>2. QED
  BY <1>1, StoppedThroughRelease DEF Settles

LEMMA SettledMeansQuiet ==
  ASSUME NEW d, NEW A, Settles(d, <<>>, A), NEW p \in LatePairs(d), p[2] \in CoreReleases(d) \cup Facts(d)
  PROVE  p[1] \notin A \/ ManagedAfter(d, p[1], p[2])
<1>1. Len(<<>>) + 1 = 1
  OBVIOUS
<1>2. QED
  BY <1>1, FirstIsStopped DEF Settles, Quiet

(* What is still to be released is found after the first release, too. *)
LEMMA FindsThroughRelease ==
  ASSUME NEW d, NEW T, NEW L \in Seq(T), L # <<>>, NEW H, Finds(d, L, H)
  PROVE  Finds(d, Tail(L), H \ {Head(L)})
<1> SUFFICES ASSUME NEW k \in DOMAIN Tail(L), Tail(L)[k] \notin Activities(d),
                    <<d, Tail(L)[k]>> \notin KnownStrays
             PROVE  /\ Tail(L)[k] \in H \ {Head(L)}
                    /\ \A j \in 1 .. k - 1 : Tail(L)[j] # Tail(L)[k]
  BY DEF Finds
<1>1. k + 1 \in DOMAIN L /\ Tail(L)[k] = L[k + 1]
  BY TailItems
<1>2. L[k + 1] \in H /\ \A j \in 1 .. (k + 1) - 1 : L[j] # L[k + 1]
  BY <1>1 DEF Finds
<1>3. Tail(L)[k] # Head(L)
  BY <1>1, <1>2, TailItems
<1>4. ASSUME NEW j \in 1 .. k - 1 PROVE Tail(L)[j] # Tail(L)[k]
  BY <1>1, <1>2, TailItems
<1>5. QED
  BY <1>1, <1>2, <1>3, <1>4

LEMMA FindsInMore ==
  ASSUME NEW d, NEW L, NEW H, NEW G, H \subseteq G, Finds(d, L, H)
  PROVE  Finds(d, L, G)
BY DEF Finds

(* The core's list: a managed resource is appended, the last one is released. *)
LEMMA SingletonSeq == \A r : SetToSeq({r}) = <<r>>
<1> SUFFICES ASSUME NEW r PROVE SetToSeq({r}) = <<r>>
  OBVIOUS
<1>1. Cardinality({r}) = 1
  BY FS_Singleton
<1>2. \A f \in [1 .. 1 -> {r}] : f = <<r>>
  OBVIOUS
<1>3. <<r>> \in [1 .. 1 -> {r}] /\ IsInjective(<<r>>)
  BY DEF IsInjective
<1>4. QED
  BY <1>1, <1>2, <1>3 DEF SetToSeq

LEMMA FrontItems ==
  ASSUME NEW T, NEW L \in Seq(T), L # <<>>
  PROVE  /\ Len(L) \in Nat \ {0} /\ Front(L) \in Seq(T) /\ Last(L) = L[Len(L)]
         /\ Len(Front(L)) = Len(L) - 1
         /\ \A k \in 1 .. Len(L) - 1 : Front(L)[k] = L[k]
         /\ DOMAIN L = 1 .. Len(L) /\ DOMAIN Front(L) = 1 .. Len(L) - 1
         /\ ToSet(Front(L)) \subseteq ToSet(L) /\ Last(L) \in ToSet(L)
         /\ ToSet(L) \subseteq ToSet(Front(L)) \cup {Last(L)}
<1>1. Len(L) \in Nat \ {0} /\ Last(L) = L[Len(L)] /\ DOMAIN L = 1 .. Len(L)
  BY EmptySeq, LenProperties DEF Last
<1>2. /\ Front(L) \in Seq(T) /\ Len(Front(L)) = Len(L) - 1
      /\ \A k \in 1 .. Len(L) - 1 : Front(L)[k] = L[k]
  BY <1>1, SubSeqProperties DEF Front
<1>3. DOMAIN Front(L) = 1 .. Len(L) - 1
  BY <1>2, LenProperties
<1>4. ToSet(Front(L)) \subseteq ToSet(L) /\ Last(L) \in ToSet(L)
  BY <1>1, <1>2, <1>3 DEF ToSet
<1>5. ASSUME NEW k \in 1 .. Len(L) PROVE L[k] \in ToSet(Front(L)) \cup {Last(L)}
  <2>1. CASE k = Len(L)
    BY <1>1, <2>1
  <2>2. CASE k # Len(L)
    <3>1. k \in 1 .. Len(L) - 1
      <4>1. Len(L) \in Nat
        BY <1>1
      <4>2. QED
        BY <4>1, <2>2
    <3>2. Front(L)[k] = L[k]
      BY <1>2, <3>1
    <3>3. Front(L)[k] \in ToSet(Front(L))
      BY <1>3, <3>1, ItemOf
    <3>4. QED
      BY <3>2, <3>3
  <2>3. QED
    BY <2>1, <2>2
<1>6. QED
  BY <1>1, <1>2, <1>3, <1>4, <1>5 DEF ToSet

LEMMA AppendedItems ==
  ASSUME NEW T, NEW L \in Seq(T), NEW x \in T
  PROVE  /\ L \o <<x>> \in Seq(T) /\ Len(L) \in Nat /\ DOMAIN L = 1 .. Len(L)
         /\ DOMAIN (L \o <<x>>) = 1 .. Len(L) + 1
         /\ \A k \in 1 .. Len(L) : (L \o <<x>>)[k] = L[k]
         /\ (L \o <<x>>)[Len(L) + 1] = x
         /\ ToSet(L \o <<x>>) = ToSet(L) \cup {x}
<1>1. Len(L) \in Nat /\ <<x>> \in Seq(T) /\ Len(<<x>>) = 1 /\ <<x>>[1] = x /\ DOMAIN L = 1 .. Len(L)
  BY LenProperties
<1>2. L \o <<x>> \in Seq(T) /\ Len(L \o <<x>>) = Len(L) + 1
  BY <1>1, ConcatProperties
<1>3. DOMAIN (L \o <<x>>) = 1 .. Len(L) + 1
  BY <1>2, LenProperties
<1>4. \A k \in 1 .. Len(L) : (L \o <<x>>)[k] = L[k]
  BY <1>1, ConcatProperties
<1>5. (L \o <<x>>)[Len(L) + 1] = x
  BY <1>1, ConcatProperties
<1>6. ToSet(L \o <<x>>) = ToSet(L) \cup {x}
  <2>1. ToSet(L \o <<x>>) \subseteq ToSet(L) \cup {x}
    BY <1>1, <1>3, <1>4, <1>5 DEF ToSet
  <2>2. ToSet(L) \subseteq ToSet(L \o <<x>>)
    BY <1>1, <1>3, <1>4 DEF ToSet
  <2>3. x \in ToSet(L \o <<x>>)
    BY <1>1, <1>3, <1>5 DEF ToSet
  <2>4. QED
    BY <2>1, <2>2, <2>3
<1>7. QED
  BY <1>1, <1>2, <1>3, <1>4, <1>5, <1>6

-----------------------------------------------------------------------------
(* The machine. *)

LEMMA SameDriver == [Next]_vars => driver' = driver /\ this' = this
BY DEF Next, Load, Acquire, Fail, FailUnnoticed, Bind, Release, Unwound, Unbind, Removed,
       ReleaseManaged, Gone, Call, vars, this

(* The step at pc. *)
LEMMA StepAtPc ==
  ASSUME FollowsRules(driver), TypeOK, pc <= Len(Steps(driver))
  PROVE  /\ Len(Steps(driver)) \in Nat /\ pc \in DOMAIN Steps(driver) /\ pc \in 1 .. Len(Steps(driver))
         /\ WellFormed(driver)
         /\ step = Steps(driver)[pc]
         /\ step.gets \subseteq Resources(driver) /\ step.arms \subseteq Activities(driver)
         /\ step.kind = "managed" =>
              \E r \in Resources(driver) : step.gets = {r} /\ SetToSeq(step.gets) = <<r>>
<1>1. WellFormed(driver)
  BY DEF FollowsRules
<1>2. Len(Steps(driver)) \in Nat /\ pc \in DOMAIN Steps(driver) /\ pc \in 1 .. Len(Steps(driver))
  BY <1>1, StepsCounted DEF TypeOK
<1>3. step.gets \subseteq Resources(driver) /\ step.arms \subseteq Activities(driver)
  BY <1>2 DEF step, Resources, Activities
<1>4. Steps(driver)[pc].kind = "managed" => \E r \in Resources(driver) : Steps(driver)[pc].gets = {r}
  BY <1>1, <1>2 DEF WellFormed
<1>5. QED
  BY <1>1, <1>2, <1>3, <1>4, SingletonSeq DEF step

LEMMA NextTypeOK ==
  ASSUME FollowsRules(driver), TypeOK, [Next]_vars
  PROVE  TypeOK'
<1>1. driver' = driver /\ WellFormed(driver) /\ Len(Steps(driver)) \in Nat
  BY SameDriver, StepsCounted DEF FollowsRules
<1>2. CASE UNCHANGED vars
  BY <1>2 DEF vars, TypeOK
<1>3. CASE Load
  BY <1>3 DEF Load, TypeOK, Phases
<1>4. CASE Acquire
  <2>1. pc' \in 1 .. Len(Steps(driver)) + 1 /\ held' \subseteq Resources(driver)
        /\ armed' \subseteq Activities(driver)
    BY <1>4, StepAtPc DEF Acquire, TypeOK
  <2>2. devres' \in Seq(Resources(driver))
    <3>1. CASE step.kind = "managed"
      <4>1. PICK r \in Resources(driver) : SetToSeq(step.gets) = <<r>>
        BY <1>4, <3>1, StepAtPc DEF Acquire
      <4>2. devres' = devres \o <<r>>
        BY <1>4, <3>1, <4>1 DEF Acquire
      <4>3. QED
        BY <4>2, AppendedItems DEF TypeOK
    <3>2. CASE step.kind # "managed"
      BY <1>4, <3>2 DEF Acquire, TypeOK
    <3>3. QED
      BY <3>1, <3>2
  <2>3. QED
    BY <1>1, <1>4, <2>1, <2>2 DEF Acquire, TypeOK
<1>5. CASE Fail
  <2>1. todo' \in Seq(Releasable(driver))
    BY <1>5, StepAtPc DEF Fail, WellFormed
  <2>2. QED
    BY <1>1, <1>5, <2>1 DEF Fail, TypeOK, Phases
<1>6. CASE FailUnnoticed
  BY <1>1, <1>6 DEF FailUnnoticed, TypeOK
<1>7. CASE Bind
  BY <1>1, <1>7 DEF Bind, TypeOK, Phases
<1>8. CASE Release
  BY <1>1, <1>8, TailItems DEF Release, TypeOK
<1>9. CASE Unwound
  BY <1>1, <1>9 DEF Unwound, TypeOK, Phases
<1>10. CASE Unbind
  BY <1>1, <1>10 DEF Unbind, TypeOK, Phases, this, WellFormed
<1>11. CASE Removed
  BY <1>1, <1>11 DEF Removed, TypeOK, Phases
<1>12. CASE ReleaseManaged
  BY <1>1, <1>12, FrontItems DEF ReleaseManaged, TypeOK
<1>13. CASE Gone
  BY <1>1, <1>13 DEF Gone, TypeOK, Phases
<1>14. CASE Call
  BY <1>1, <1>14 DEF Call, TypeOK, Activities
<1>15. QED
  BY <1>2, <1>3, <1>4, <1>5, <1>6, <1>7, <1>8, <1>9, <1>10, <1>11, <1>12, <1>13, <1>14 DEF Next

LEMMA NextPhaseOK ==
  ASSUME FollowsRules(driver), TypeOK, PhaseOK, [Next]_vars
  PROVE  PhaseOK'
<1>1. driver' = driver /\ WellFormed(driver)
  BY SameDriver DEF FollowsRules
<1>2. CASE UNCHANGED vars
  BY <1>2 DEF vars, PhaseOK
<1>3. CASE Load
  BY <1>1, <1>3 DEF Load, PhaseOK
<1>4. CASE Acquire
  BY <1>1, <1>4 DEF Acquire, PhaseOK
<1>5. CASE Fail
  <2>1. pc \in Failing(driver) /\ step = Steps(driver)[pc]
    BY <1>5, StepAtPc DEF Fail, Failing
  <2>2. QED
    BY <1>1, <1>5, <2>1 DEF Fail, PhaseOK
<1>6. CASE FailUnnoticed
  BY <1>1, <1>6 DEF FailUnnoticed, PhaseOK
<1>7. CASE Bind
  BY <1>1, <1>7 DEF Bind, PhaseOK
<1>8. CASE Release
  <2>1. ToSet(todo') \subseteq ToSet(todo)
    BY <1>8, TailItems DEF Release, TypeOK
  <2>2. QED
    BY <1>1, <1>8, <2>1 DEF Release, PhaseOK
<1>9. CASE Unwound
  BY <1>1, <1>9 DEF Unwound, PhaseOK
<1>10. CASE Unbind
  BY <1>1, <1>10 DEF Unbind, PhaseOK
<1>11. CASE Removed
  BY <1>1, <1>11 DEF Removed, PhaseOK
<1>12. CASE ReleaseManaged
  BY <1>1, <1>12 DEF ReleaseManaged, PhaseOK
<1>13. CASE Gone
  BY <1>1, <1>13 DEF Gone, PhaseOK
<1>14. CASE Call
  BY <1>1, <1>14 DEF Call, PhaseOK
<1>15. QED
  BY <1>2, <1>3, <1>4, <1>5, <1>6, <1>7, <1>8, <1>9, <1>10, <1>11, <1>12, <1>13, <1>14 DEF Next

LEMMA NextBounded ==
  ASSUME FollowsRules(driver), TypeOK, Bounded, [Next]_vars
  PROVE  Bounded'
<1>1. driver' = driver /\ WellFormed(driver)
  BY SameDriver DEF FollowsRules
<1>2. CASE UNCHANGED vars
  BY <1>2 DEF vars, Bounded, Alive
<1>3. CASE Load
  BY <1>1, <1>3 DEF Load, Bounded, Alive
<1>4. CASE Acquire \/ FailUnnoticed
  <2>1. /\ pc \in 1 .. Len(Steps(driver)) /\ pc' = pc + 1
        /\ Alive' \subseteq Alive \cup Steps(driver)[pc].gets \cup Steps(driver)[pc].arms
    BY <1>4, StepAtPc DEF Acquire, FailUnnoticed, Alive
  <2>2. Acquired(driver, pc + 1)
          = Acquired(driver, pc) \cup Steps(driver)[pc].gets \cup Steps(driver)[pc].arms
    BY <1>1, <2>1, OneStepMore
  <2>3. Live(driver, pc) \subseteq Live(driver, pc + 1)
    BY <2>2, LiveGrows
  <2>4. Acquired(driver, pc + 1) \subseteq Live(driver, pc + 1)
    BY DEF Live
  <2>5. QED
    BY <1>1, <2>1, <2>2, <2>3, <2>4 DEF Bounded
<1>5. CASE Fail
  BY <1>1, <1>5 DEF Fail, Bounded, Alive
<1>6. CASE Bind \/ Unwound \/ Unbind \/ Removed
  BY <1>1, <1>6 DEF Bind, Unwound, Unbind, Removed, Bounded, Alive
<1>7. CASE Release \/ ReleaseManaged \/ Gone
  BY <1>1, <1>7 DEF Release, ReleaseManaged, Gone, Bounded, Alive
<1>8. CASE Call
  <2>1. PICK c \in Calls(driver) : c.via \in Alive /\ armed' \subseteq armed \cup c.arms
    BY <1>8 DEF Call, Reachable, Alive
  <2>2. c.arms \subseteq Live(driver, pc)
    BY <1>1, <2>1, CallsStayWithin DEF Bounded
  <2>3. QED
    BY <1>1, <1>8, <2>1, <2>2 DEF Call, Bounded, Alive
<1>9. QED
  BY <1>2, <1>3, <1>4, <1>5, <1>6, <1>7, <1>8 DEF Next

LEMMA NextCertainHeld ==
  ASSUME FollowsRules(driver), TypeOK, PhaseOK, CertainHeld, [Next]_vars
  PROVE  CertainHeld'
<1>1. driver' = driver /\ WellFormed(driver)
  BY SameDriver DEF FollowsRules
<1>2. CASE UNCHANGED vars
  BY <1>2 DEF vars, CertainHeld
<1>3. CASE Load
  <2>1. Certain(driver, 1) = {}
    BY DEF Certain
  <2>2. QED
    BY <1>1, <1>3, <2>1 DEF Load, CertainHeld, PhaseOK
<1>4. CASE Acquire
  <2>1. Certain(driver, pc + 1) \subseteq Certain(driver, pc) \cup step.gets
    BY <1>1, <1>4, StepAtPc, OneStepMore DEF Acquire
  <2>2. QED
    BY <1>1, <1>4, <2>1 DEF Acquire, CertainHeld
<1>5. CASE Fail
  BY <1>1, <1>5 DEF Fail, CertainHeld, Left
<1>6. CASE FailUnnoticed
  <2>1. Certain(driver, pc + 1) = Certain(driver, pc)
    BY <1>1, <1>6, StepAtPc, OneStepMore DEF FailUnnoticed
  <2>2. QED
    BY <1>1, <1>6, <2>1 DEF FailUnnoticed, CertainHeld
<1>7. CASE Bind
  <2>1. pc = Done(driver)
    BY <1>1, <1>7, StepsCounted DEF Bind, TypeOK, Done
  <2>2. QED
    BY <1>1, <1>7, <2>1 DEF Bind, CertainHeld
<1>8. CASE Release
  <2>1. Head(todo) \in ToSet(todo)
    BY <1>8, TailItems DEF Release, TypeOK
  <2>2. QED
    BY <1>1, <1>8, <2>1 DEF Release, CertainHeld, PhaseOK, Left
<1>9. CASE Unwound
  BY <1>1, <1>9 DEF Unwound, CertainHeld, PhaseOK, GivesUp, Failing
<1>10. CASE Unbind \/ Removed \/ ReleaseManaged \/ Gone
  BY <1>1, <1>10 DEF Unbind, Removed, ReleaseManaged, Gone, CertainHeld
<1>11. CASE Call
  BY <1>1, <1>11 DEF Call, CertainHeld
<1>12. QED
  BY <1>2, <1>3, <1>4, <1>5, <1>6, <1>7, <1>8, <1>9, <1>10, <1>11 DEF Next

LEMMA NothingToFind == \A d, H : Finds(d, <<>>, H)
BY DEF Finds

LEMMA NextReleasesFind ==
  ASSUME FollowsRules(driver), TypeOK, PhaseOK, CertainHeld, ReleasesFind, [Next]_vars
  PROVE  ReleasesFind'
<1>1. driver' = driver /\ WellFormed(driver) /\ ReleasesHeld(driver)
  BY SameDriver DEF FollowsRules
<1>2. CASE UNCHANGED vars
  BY <1>2 DEF vars, ReleasesFind
<1>3. CASE Load \/ Acquire \/ FailUnnoticed \/ Bind
  BY <1>1, <1>3, NothingToFind DEF Load, Acquire, FailUnnoticed, Bind, PhaseOK, ReleasesFind
<1>4. CASE Fail
  <2>1. pc \in Failing(driver) /\ step = Steps(driver)[pc]
    BY <1>4, StepAtPc DEF Fail, Failing
  <2>2. Finds(driver, step.undo, Certain(driver, pc)) /\ Certain(driver, pc) \subseteq held
    BY <1>1, <1>4, <2>1 DEF Fail, ReleasesHeld, CertainHeld
  <2>3. QED
    BY <1>1, <1>4, <2>2, FindsInMore DEF Fail, ReleasesFind
<1>5. CASE Release
  BY <1>1, <1>5, FindsThroughRelease DEF Release, TypeOK, ReleasesFind
<1>6. CASE Unwound \/ Removed
  BY <1>1, <1>6 DEF Unwound, Removed, ReleasesFind
<1>7. CASE Unbind
  <2>1. CASE pc = Done(driver) /\ Certain(driver, Done(driver)) \subseteq held
    BY <1>1, <1>7, <2>1, FindsInMore DEF Unbind, ReleasesHeld, ReleasesFind, this
  <2>2. CASE pc \in GivesUp(driver) /\ Left(driver, pc) \subseteq held
    BY <1>1, <1>7, <2>2, FindsInMore DEF Unbind, ReleasesHeld, ReleasesFind, this
  <2>3. QED
    BY <1>7, <2>1, <2>2 DEF Unbind, CertainHeld
<1>8. CASE ReleaseManaged \/ Gone
  BY <1>1, <1>8, NothingToFind DEF ReleaseManaged, Gone, PhaseOK, ReleasesFind
<1>9. CASE Call
  BY <1>1, <1>9 DEF Call, ReleasesFind
<1>10. QED
  BY <1>2, <1>3, <1>4, <1>5, <1>6, <1>7, <1>8, <1>9 DEF Next

LEMMA NextAccounted ==
  ASSUME FollowsRules(driver), TypeOK, PhaseOK, Accounted, [Next]_vars
  PROVE  Accounted'
<1>1. driver' = driver /\ this' = this /\ WellFormed(driver) /\ ReleasesAll(driver)
  BY SameDriver DEF FollowsRules
<1>2. CASE UNCHANGED vars
  BY <1>1, <1>2 DEF vars, Accounted, RemoveWillRun
<1>3. CASE Load
  BY <1>1, <1>3 DEF Load, Accounted, RemoveWillRun
<1>4. CASE Acquire
  <2>1. /\ pc \in DOMAIN Steps(driver) /\ step = Steps(driver)[pc]
        /\ step.kind \in {"owned", "managed", "fact"}
        /\ Owned(driver, pc) \subseteq Owned(driver, pc + 1)
        /\ step.kind = "owned" => step.gets \subseteq Owned(driver, pc + 1)
    BY <1>1, <1>4, StepAtPc, OneStepMore DEF Acquire, WellFormed
  <2>2. step.kind = "fact" => step.gets \subseteq Facts(driver)
    BY <2>1 DEF Facts
  <2>3. /\ ToSet(devres) \subseteq ToSet(devres')
        /\ step.kind = "managed" => step.gets \subseteq ToSet(devres')
    <3>1. CASE step.kind = "managed"
      <4>1. PICK r \in Resources(driver) : step.gets = {r} /\ SetToSeq(step.gets) = <<r>>
        BY <1>4, <3>1, StepAtPc DEF Acquire
      <4>2. devres' = devres \o <<r>>
        BY <1>4, <3>1, <4>1 DEF Acquire
      <4>3. QED
        BY <4>1, <4>2, AppendedItems DEF TypeOK
    <3>2. CASE step.kind # "managed"
      BY <1>4, <3>2 DEF Acquire
    <3>3. QED
      BY <3>1, <3>2
  <2>4. QED
    BY <1>1, <1>4, <2>1, <2>2, <2>3 DEF Acquire, Accounted, RemoveWillRun
<1>5. CASE Fail
  <2>1. /\ pc \in Failing(driver) /\ step = Steps(driver)[pc] /\ pc \in 1 .. Done(driver)
        /\ pc \in GivesUp(driver) <=> step.fails = "success"
    BY <1>5, StepAtPc DEF Fail, Failing, GivesUp, TypeOK, Done
  <2>2. ASSUME NEW r \in Owned(driver, pc), <<driver, r>> \notin KnownLeaks
        PROVE  IF step.fails = "success" THEN r \in ToSet(this.remove) ELSE r \in ToSet(step.undo)
    BY <1>1, <2>1, <2>2, AllStepsMost DEF ReleasesAll, this
  <2>3. QED
    BY <1>1, <1>5, <2>2 DEF Fail, Accounted, RemoveWillRun
<1>6. CASE FailUnnoticed
  <2>1. Owned(driver, pc) \subseteq Owned(driver, pc + 1)
    BY <1>1, <1>6, StepAtPc, OneStepMore DEF FailUnnoticed
  <2>2. QED
    BY <1>1, <1>6, <2>1 DEF FailUnnoticed, Accounted, RemoveWillRun
<1>7. CASE Bind
  <2>1. pc = Done(driver)
    BY <1>1, <1>7, StepsCounted DEF Bind, TypeOK, Done
  <2>2. QED
    BY <1>1, <1>7, <2>1 DEF Bind, Accounted, RemoveWillRun, ReleasesAll, this
<1>8. CASE Release
  <2>1. ToSet(todo) \subseteq ToSet(todo') \cup {Head(todo)}
    BY <1>8, TailItems DEF Release, TypeOK
  <2>2. QED
    BY <1>1, <1>8, <2>1 DEF Release, Accounted, RemoveWillRun
<1>9. CASE Unwound \/ Removed
  <2>1. ToSet(<<>>) = {}
    BY DEF ToSet
  <2>2. QED
    BY <1>1, <1>9, <2>1 DEF Unwound, Removed, Accounted, RemoveWillRun
<1>10. CASE Unbind
  BY <1>1, <1>10 DEF Unbind, Accounted, RemoveWillRun
<1>11. CASE ReleaseManaged
  <2>1. ToSet(devres) \subseteq ToSet(devres') \cup {Last(devres)}
    BY <1>11, FrontItems DEF ReleaseManaged, TypeOK
  <2>2. QED
    BY <1>1, <1>11, <2>1 DEF ReleaseManaged, Accounted, RemoveWillRun
<1>12. CASE Gone
  BY <1>1, <1>12 DEF Gone, Accounted, RemoveWillRun
<1>13. CASE Call
  BY <1>1, <1>13 DEF Call, Accounted, RemoveWillRun
<1>14. QED
  BY <1>2, <1>3, <1>4, <1>5, <1>6, <1>7, <1>8, <1>9, <1>10, <1>11, <1>12, <1>13 DEF Next

LEMMA NextDevresOrdered ==
  ASSUME FollowsRules(driver), TypeOK, DevresOrdered, [Next]_vars
  PROVE  DevresOrdered'
<1>1. driver' = driver /\ WellFormed(driver)
  BY SameDriver DEF FollowsRules
<1>2. CASE devres' = devres /\ pc' = pc /\ held' \subseteq held
  BY <1>1, <1>2 DEF DevresOrdered
<1>3. CASE Acquire
  <2>1. /\ pc \in Nat /\ pc' = pc + 1 /\ pc \in 1 .. pc' - 1 /\ 1 .. pc - 1 \subseteq 1 .. pc' - 1
        /\ pc \in DOMAIN Steps(driver) /\ step = Steps(driver)[pc]
    BY <1>3, StepAtPc DEF Acquire
  <2>2. CASE step.kind = "managed"
    <3>1. PICK r \in Resources(driver) : step.gets = {r} /\ SetToSeq(step.gets) = <<r>>
      BY <1>3, <2>2, StepAtPc DEF Acquire
    <3> DEFINE n == Len(devres)
    <3>2. devres' = devres \o <<r>> /\ ManagedBy(driver, r, pc)
      BY <1>3, <2>1, <2>2, <3>1 DEF Acquire, ManagedBy
    <3>3. /\ n \in Nat /\ DOMAIN devres = 1 .. n /\ DOMAIN devres' = 1 .. n + 1
          /\ \A k \in 1 .. n : devres'[k] = devres[k]
          /\ devres'[n + 1] = r /\ ToSet(devres') = ToSet(devres) \cup {r}
      BY <3>2, AppendedItems DEF TypeOK
    <3>4. ASSUME NEW k \in 1 .. n + 1 PROVE \E b \in 1 .. pc' - 1 : ManagedBy(driver, devres'[k], b)
      <4>1. CASE k = n + 1
        BY <2>1, <3>2, <3>3, <4>1
      <4>2. CASE k \in 1 .. n
        BY <2>1, <3>3, <4>2 DEF DevresOrdered
      <4>3. QED
        BY <3>3, <4>1, <4>2
    <3>5. ASSUME NEW j \in 1 .. n + 1, NEW k \in 1 .. n + 1, j < k
          PROVE  \E a, b \in 1 .. pc' - 1 :
                   a < b /\ ManagedBy(driver, devres'[j], a) /\ ManagedBy(driver, devres'[k], b)
      <4>1. CASE k = n + 1
        <5>1. j \in 1 .. n
          BY <3>3, <3>5, <4>1
        <5>2. PICK a \in 1 .. pc - 1 : ManagedBy(driver, devres[j], a)
          BY <3>3, <5>1 DEF DevresOrdered
        <5>3. a < pc
          BY <2>1
        <5>4. QED
          BY <2>1, <3>2, <3>3, <4>1, <5>1, <5>2, <5>3
      <4>2. CASE k \in 1 .. n
        <5>1. j \in 1 .. n
          BY <3>3, <3>5, <4>2
        <5>2. QED
          BY <2>1, <3>3, <3>5, <4>2, <5>1 DEF DevresOrdered
      <4>3. QED
        BY <3>3, <4>1, <4>2
    <3>6. ASSUME NEW s \in held', OnlyManaged(driver, s) PROVE s \in ToSet(devres')
      BY <1>3, <3>1, <3>3, <3>6 DEF Acquire, DevresOrdered
    <3>7. QED
      BY <1>1, <3>3, <3>4, <3>5, <3>6 DEF DevresOrdered
  <2>3. CASE step.kind # "managed"
    <3>1. devres' = devres /\ held' = held \cup step.gets
      BY <1>3, <2>3 DEF Acquire
    <3>2. \A s \in step.gets : ~ OnlyManaged(driver, s)
      BY <2>1, <2>3 DEF OnlyManaged
    <3>3. QED
      BY <1>1, <2>1, <3>1, <3>2 DEF DevresOrdered
  <2>4. QED
    BY <2>2, <2>3
<1>4. CASE FailUnnoticed
  <2>1. devres' = devres /\ held' = held /\ 1 .. pc - 1 \subseteq 1 .. pc' - 1
    BY <1>4, StepAtPc DEF FailUnnoticed
  <2>2. QED
    BY <1>1, <2>1 DEF DevresOrdered
<1>5. CASE ReleaseManaged
  <2>1. /\ Len(devres) \in Nat \ {0} /\ DOMAIN devres = 1 .. Len(devres)
        /\ DOMAIN devres' = 1 .. Len(devres) - 1
        /\ \A k \in 1 .. Len(devres) - 1 : devres'[k] = devres[k]
        /\ ToSet(devres) \subseteq ToSet(devres') \cup {Last(devres)}
    BY <1>5, FrontItems DEF ReleaseManaged, TypeOK
  <2>2. 1 .. Len(devres) - 1 \subseteq 1 .. Len(devres)
    BY <2>1
  <2>3. pc' = pc /\ held' = held \ {Last(devres)}
    BY <1>5 DEF ReleaseManaged
  <2>4. QED
    BY <1>1, <2>1, <2>2, <2>3 DEF DevresOrdered
<1>6. QED
  BY <1>2, <1>3, <1>4, <1>5 DEF Next, Load, Fail, Bind, Release, Unwound, Unbind, Removed, Gone, Call, vars

(* What the core still has to release is not what something managed later *)
(* was built before.                                                       *)
LEMMA LastIsNotNeeded ==
  ASSUME FollowsRules(driver), TypeOK, DevresOrdered, devres # <<>>,
         NEW v \in held, ManagedAfter(driver, v, Last(devres))
  PROVE  v = Last(devres)
<1> DEFINE n == Len(devres)
<1>1. n \in Nat \ {0} /\ DOMAIN devres = 1 .. n /\ Last(devres) = devres[n]
  BY FrontItems DEF TypeOK
<1>2. v \in ToSet(devres)
  BY DEF ManagedAfter, OnlyManaged, DevresOrdered
<1>3. PICK j \in 1 .. n : devres[j] = v
  BY <1>1, <1>2 DEF ToSet
<1>4. CASE j = n
  BY <1>1, <1>3, <1>4
<1>5. CASE j # n
  <2>1. j < n
    <3>1. n \in Nat
      BY <1>1
    <3>2. QED
      BY <3>1, <1>5
  <2>2. n \in 1 .. n
    BY <1>1
  <2>3. PICK a, b \in 1 .. pc - 1 : a < b /\ ManagedBy(driver, v, a) /\ ManagedBy(driver, Last(devres), b)
    BY <1>1, <1>3, <2>1, <2>2 DEF DevresOrdered
  <2>4. 1 .. pc - 1 \subseteq DOMAIN Steps(driver)
    BY StepsCounted DEF FollowsRules, TypeOK
  <2>5. a \in DOMAIN Steps(driver) /\ b \in DOMAIN Steps(driver)
    BY <2>3, <2>4
  <2>6. b < a
    BY <2>3, <2>5 DEF ManagedAfter, ManagedBy
  <2>7. pc \in Nat
    BY StepsCounted DEF FollowsRules, TypeOK
  <2>8. QED
    BY <2>3, <2>6, <2>7
<1>6. QED
  BY <1>4, <1>5

LEMMA NextServed ==
  ASSUME FollowsRules(driver), TypeOK, PhaseOK, Bounded, CertainHeld, Served, Stopped, DevresOrdered,
         [Next]_vars
  PROVE  Served'
<1>1. driver' = driver /\ WellFormed(driver) /\ StopsFirst(driver)
  BY SameDriver DEF FollowsRules
<1>2. CASE UNCHANGED vars
  BY <1>2 DEF vars, Served, Alive
<1>3. CASE Load \/ Acquire \/ FailUnnoticed
  BY <1>3 DEF Load, Acquire, FailUnnoticed, Served
<1>4. CASE Fail \/ Bind
  <2>1. Certain(driver, pc) \subseteq held /\ Alive \subseteq Live(driver, pc)
    BY <1>4 DEF Fail, Bind, CertainHeld, Bounded
  <2>2. pc \in Failing(driver) \cup {Done(driver)}
    <3>1. CASE Fail
      BY <3>1, StepAtPc DEF Fail, Failing
    <3>2. CASE Bind
      BY <1>1, <3>2, StepsCounted DEF Bind, TypeOK, Done
    <3>3. QED
      BY <1>4, <3>1, <3>2
  <2>3. \A p \in LatePairs(driver) : p[1] \in Live(driver, pc) => p[2] \in Certain(driver, pc)
    BY <1>1, <2>2 DEF StopsFirst
  <2>4. held' = held /\ Alive' = Alive
    BY <1>4 DEF Fail, Bind, Alive
  <2>5. QED
    BY <1>1, <2>1, <2>3, <2>4 DEF Served
<1>5. CASE Release
  <2>1. InOrder(driver, todo, Alive) /\ todo # <<>>
    BY <1>5 DEF Release, Stopped
  <2>2. \A p \in LatePairs(driver) : Head(todo) = p[2] => p[1] \notin Alive
    BY <2>1, InOrderThroughRelease DEF TypeOK
  <2>3. held' = held \ {Head(todo)} /\ Alive' \subseteq Alive /\ phase # "probing"
    BY <1>5 DEF Release, Alive
  <2>4. QED
    BY <1>1, <2>2, <2>3 DEF Served
<1>6. CASE Unwound \/ Unbind \/ Removed
  BY <1>1, <1>6 DEF Unwound, Unbind, Removed, Served, Alive
<1>7. CASE ReleaseManaged
  <2>1. Settles(driver, <<>>, Alive) /\ devres # <<>> /\ phase # "probing"
    BY <1>7 DEF ReleaseManaged, Stopped, PhaseOK
  <2>2. held' = held \ {Last(devres)} /\ armed' = armed /\ Alive' \subseteq Alive
    BY <1>7 DEF ReleaseManaged, Alive
  <2>3. Last(devres) \in CoreReleases(driver)
    <3>1. Len(devres) \in DOMAIN devres /\ Last(devres) = devres[Len(devres)]
      <4>1. /\ Len(devres) \in Nat \ {0} /\ Last(devres) = devres[Len(devres)]
            /\ DOMAIN devres = 1 .. Len(devres)
        BY <2>1, FrontItems DEF TypeOK
      <4>2. Len(devres) \in 1 .. Len(devres)
        BY <4>1
      <4>3. QED
        BY <4>1, <4>2
    <3>2. PICK b \in 1 .. pc - 1 : ManagedBy(driver, Last(devres), b)
      BY <3>1 DEF DevresOrdered
    <3>3. b \in DOMAIN Steps(driver)
      BY <1>1, StepsCounted DEF TypeOK
    <3>4. QED
      BY <3>2, <3>3 DEF ManagedBy, CoreReleases
  <2>4. ASSUME NEW p \in LatePairs(driver), p[1] \in Alive', p[2] = Last(devres) PROVE FALSE
    <3>1. p[1] \in Alive /\ ManagedAfter(driver, p[1], p[2])
      BY <2>1, <2>2, <2>3, <2>4, SettledMeansQuiet
    <3>2. p[1] \in Resources(driver)
      BY <3>1 DEF ManagedAfter, CoreReleases, Resources
    <3>3. p[1] \notin armed
      BY <1>1, <3>2 DEF WellFormed, TypeOK
    <3>4. p[1] \in held /\ p[1] \in held'
      BY <2>2, <2>4, <3>1, <3>3 DEF Alive
    <3>5. p[1] = Last(devres)
      BY <2>1, <2>4, <3>1, <3>4, LastIsNotNeeded
    <3>6. QED
      BY <2>2, <3>4, <3>5
  <2>5. QED
    BY <1>1, <2>1, <2>2, <2>4 DEF Served
<1>8. CASE Gone
  <2>1. Settles(driver, <<>>, Alive) /\ devres = <<>> /\ phase # "probing"
    BY <1>8 DEF Gone, Stopped, PhaseOK
  <2>2. held' = held \ Facts(driver) /\ armed' = armed /\ Alive' \subseteq Alive
    BY <1>8 DEF Gone, Alive
  <2>3. ASSUME NEW p \in LatePairs(driver), p[1] \in Alive, p[2] \in Facts(driver) PROVE FALSE
    <3>1. ManagedAfter(driver, p[1], p[2])
      BY <2>1, <2>3, SettledMeansQuiet
    <3>2. p[1] \in Resources(driver) /\ OnlyManaged(driver, p[1])
      BY <3>1 DEF ManagedAfter, CoreReleases, Resources, OnlyManaged
    <3>3. p[1] \in held
      BY <1>1, <2>3, <3>2 DEF WellFormed, TypeOK, Alive
    <3>4. p[1] \in ToSet(<<>>)
      BY <2>1, <3>2, <3>3 DEF DevresOrdered
    <3>5. QED
      BY <3>4 DEF ToSet
  <2>4. QED
    BY <1>1, <2>1, <2>2, <2>3 DEF Served
<1>9. CASE Call
  <2>1. PICK c \in Calls(driver) : c.via \in Alive /\ armed' = (armed \ {c.via}) \cup c.arms
    BY <1>9 DEF Call, Reachable, Alive
  <2>2. held' = held /\ phase' = phase /\ Alive' \subseteq Alive \cup c.arms
    BY <1>9, <2>1 DEF Call, Alive
  <2>3. ASSUME NEW p \in LatePairs(driver), p[1] \in c.arms, phase # "probing" PROVE p[2] \in held
    <3>1. <<c.via, p[2]>> \in LatePairs(driver)
      BY <1>1, <2>3 DEF StopsFirst
    <3>2. <<c.via, p[2]>>[1] = c.via /\ <<c.via, p[2]>>[2] = p[2]
      OBVIOUS
    <3>3. QED
      BY <2>1, <2>3, <3>1, <3>2 DEF Served
  <2>4. QED
    BY <1>1, <2>2, <2>3 DEF Served
<1>10. QED
  BY <1>2, <1>3, <1>4, <1>5, <1>6, <1>7, <1>8, <1>9 DEF Next

LEMMA NextStopped ==
  ASSUME FollowsRules(driver), TypeOK, PhaseOK, Bounded, Stopped, [Next]_vars
  PROVE  Stopped'
<1>1. driver' = driver /\ this' = this /\ WellFormed(driver) /\ StopsFirst(driver)
  BY SameDriver DEF FollowsRules
<1>2. CASE UNCHANGED vars
  BY <1>2 DEF vars, Stopped, Alive
<1>3. CASE Load \/ Acquire \/ FailUnnoticed \/ Bind \/ Gone
  BY <1>3 DEF Load, Acquire, FailUnnoticed, Bind, Gone, Stopped
<1>4. CASE Fail
  <2>1. pc \in Failing(driver) /\ step = Steps(driver)[pc]
    BY <1>4, StepAtPc DEF Fail, Failing
  <2>2. /\ InOrder(driver, step.undo, Live(driver, pc))
        /\ step.fails = "error" => Settles(driver, step.undo, Live(driver, pc))
    BY <1>1, <2>1 DEF StopsFirst
  <2>3. /\ phase' = "unwinding" /\ result' = step.fails /\ todo' = step.undo
        /\ Alive' \subseteq Live(driver, pc)
    BY <1>4 DEF Fail, Alive, Bounded
  <2>4. QED
    BY <1>1, <2>2, <2>3, InOrderOfFewer, SettlesOfFewer DEF Stopped
<1>5. CASE Release
  <2>1. todo # <<>> /\ todo' = Tail(todo) /\ phase' = phase /\ result' = result
        /\ Alive' = Alive \ {Head(todo)}
    BY <1>5 DEF Release, Alive
  <2>2. InOrder(driver, todo, Alive) => InOrder(driver, Tail(todo), Alive \ {Head(todo)})
    BY <2>1, InOrderThroughRelease DEF TypeOK
  <2>3. Settles(driver, todo, Alive) => Settles(driver, Tail(todo), Alive \ {Head(todo)})
    BY <2>1, SettlesThroughRelease DEF TypeOK
  <2>4. QED
    BY <1>1, <2>1, <2>2, <2>3 DEF Stopped
<1>6. CASE Unwound
  <2>1. /\ phase = "unwinding" /\ todo' = todo /\ Alive' = Alive /\ result \in {"error", "success"}
        /\ phase' = IF result = "success" THEN "up" ELSE "releasing"
    BY <1>6 DEF Unwound, Alive, PhaseOK, Failing
  <2>2. QED
    BY <1>1, <2>1 DEF Stopped
<1>7. CASE Unbind
  <2>1. pc \in 1 .. Done(driver)
    BY DEF TypeOK, Done
  <2>2. Alive' \subseteq Live(driver, Done(driver))
    BY <1>1, <1>7, <2>1, AllStepsMost DEF Unbind, Alive, Bounded
  <2>3. /\ InOrder(driver, this.remove, Live(driver, Done(driver)))
        /\ Settles(driver, this.remove, Live(driver, Done(driver)))
    BY <1>1 DEF StopsFirst, this
  <2>4. phase' = "removing" /\ todo' = this.remove
    BY <1>7 DEF Unbind
  <2>5. QED
    BY <1>1, <2>2, <2>3, <2>4, InOrderOfFewer, SettlesOfFewer DEF Stopped
<1>8. CASE Removed
  BY <1>1, <1>8 DEF Removed, Stopped, Alive
<1>9. CASE ReleaseManaged
  <2>1. phase = "releasing" /\ phase' = phase /\ todo' = todo /\ Alive' \subseteq Alive
    BY <1>9 DEF ReleaseManaged, Alive
  <2>2. QED
    BY <1>1, <2>1, SettlesOfFewer DEF Stopped
<1>10. CASE Call
  <2>1. PICK c \in Calls(driver) : c.via \in Alive /\ Alive' \subseteq Alive \cup c.arms
    BY <1>10 DEF Call, Reachable, Alive
  <2>2. phase' = phase /\ todo' = todo /\ result' = result
    BY <1>10 DEF Call
  <2>3. InOrder(driver, todo, Alive) => InOrder(driver, todo, Alive')
    BY <1>1, <2>1, InOrderThroughCall
  <2>4. Settles(driver, todo, Alive) => Settles(driver, todo, Alive')
    BY <1>1, <2>1, SettlesThroughCall
  <2>5. QED
    BY <1>1, <2>2, <2>3, <2>4 DEF Stopped
<1>11. QED
  BY <1>2, <1>3, <1>4, <1>5, <1>6, <1>7, <1>8, <1>9, <1>10 DEF Next

-----------------------------------------------------------------------------
LEMMA InitIInv == Init /\ LoadedFollowsRules => IInv
<1> SUFFICES ASSUME Init, LoadedFollowsRules PROVE IInv
  OBVIOUS
<1>1. FollowsRules(driver) /\ WellFormed(driver)
  BY DEF Init, LoadedFollowsRules, FollowsRules
<1>2. TypeOK
  BY <1>1, StepsCounted, EmptySeq DEF Init, TypeOK, Phases
<1>3. PhaseOK /\ Bounded /\ CertainHeld /\ Accounted /\ Served /\ Stopped
  BY DEF Init, PhaseOK, Bounded, CertainHeld, Accounted, Served, Stopped, Alive
<1>4. ReleasesFind
  BY NothingToFind DEF Init, ReleasesFind
<1>5. DevresOrdered
  BY DEF Init, DevresOrdered
<1>6. QED
  BY <1>1, <1>2, <1>3, <1>4, <1>5 DEF IInv

LEMMA NextIInv == IInv /\ [Next]_vars => IInv'
<1> SUFFICES ASSUME IInv, [Next]_vars PROVE IInv'
  OBVIOUS
<1> USE DEF IInv
<1>1. FollowsRules(driver)'
  BY SameDriver
<1>2. TypeOK' /\ PhaseOK' /\ Bounded' /\ CertainHeld' /\ ReleasesFind'
  BY NextTypeOK, NextPhaseOK, NextBounded, NextCertainHeld, NextReleasesFind
<1>3. Accounted' /\ Served' /\ Stopped' /\ DevresOrdered'
  BY NextAccounted, NextServed, NextStopped, NextDevresOrdered
<1>4. QED
  BY <1>1, <1>2, <1>3

(* The loaded driver keeps the invariant for life if its table follows the *)
(* rules: it is the table alone that decides, not what fails or is called. *)
THEOREM Invariance == Spec /\ []LoadedFollowsRules => []IInv
<1>1. Init /\ LoadedFollowsRules => IInv
  BY InitIInv
<1>2. IInv /\ [Next]_vars => IInv'
  BY NextIInv
<1>3. QED
  BY <1>1, <1>2, PTL DEF Spec

-----------------------------------------------------------------------------
(* The theorems: for every driver whose table follows the rules. *)

(* A driver has acquired what it acquires and armed what it arms, and its  *)
(* lists hold nothing else, whatever fails.                                *)
THEOREM TypeCorrect == Spec /\ []LoadedFollowsRules => []TypeOK
<1>1. IInv => TypeOK
  BY DEF IInv
<1>2. QED
  BY <1>1, Invariance, PTL

(* No error label and no remove function releases what is not held, after  *)
(* any failure: no double free, no unregistering of what is not there.     *)
THEOREM StraysNever == Spec /\ []LoadedFollowsRules => []NoStrayRelease
<1>1. IInv => NoStrayRelease
  <2> SUFFICES ASSUME IInv, todo # <<>>, Head(todo) \notin held \cup Activities(driver)
               PROVE  <<driver, Head(todo)>> \in KnownStrays
    BY DEF NoStrayRelease
  <2>1. 1 \in DOMAIN todo /\ Head(todo) = todo[1]
    BY TailItems DEF IInv, TypeOK
  <2>2. QED
    BY <2>1 DEF IInv, ReleasesFind, Finds
<1>2. QED
  BY <1>1, Invariance, PTL

(* A probe that fails at any step, and a removal, leave nothing behind     *)
(* when the driver core has released what it manages.                      *)
THEOREM LeaksNever == Spec /\ []LoadedFollowsRules => []NothingLeaks
<1>1. IInv => NothingLeaks
  BY DEF IInv, NothingLeaks, Accounted, RemoveWillRun, PhaseOK, ToSet
<1>2. QED
  BY <1>1, Invariance, PTL

(* A driver whose probe has returned success has all that its probe        *)
(* acquires, whichever calls failed.                                       *)
THEOREM CompleteWhenBound == Spec /\ []LoadedFollowsRules => []BoundMeansComplete
<1>1. IInv => BoundMeansComplete
  BY DEF IInv, BoundMeansComplete, CertainHeld, FollowsRules, LooksAtResults
<1>2. QED
  BY <1>1, Invariance, PTL

(* While a probe runs it is the order of its steps that serves what is     *)
(* live, from then on the order of the releases.                           *)
LEMMA PairsServed ==
  ASSUME IInv, NEW p, p[1] \in Alive,
         p \in IF phase = "probing" THEN EarlyPairs(driver) ELSE LatePairs(driver)
  PROVE  p[2] \in held
<1>1. CASE phase = "probing"
  <2>1. pc \in 1 .. Done(driver)
    BY DEF IInv, TypeOK, Done
  <2>2. p[1] \in Live(driver, pc) /\ Certain(driver, pc) \subseteq held
    BY <1>1 DEF IInv, Bounded, CertainHeld
  <2>3. QED
    BY <1>1, <2>1, <2>2 DEF IInv, FollowsRules, RegistersLast
<1>2. CASE phase # "probing"
  BY <1>2 DEF IInv, Served
<1>3. QED
  BY <1>1, <1>2

(* Nothing outlives what it is built on: not during a probe, on an error   *)
(* path, in a removal or while the driver core releases what it manages.   *)
THEOREM DependentsNeverOutlive == Spec /\ []LoadedFollowsRules => []DependentsFirst
<1>1. IInv => DependentsFirst
  <2> SUFFICES ASSUME IInv, NEW p \in this.needs, p[1] \in held, <<driver, p[1]>> \notin KnownOrphans
               PROVE  p[2] \in held
    BY DEF DependentsFirst
  <2>1. p \in EarlyPairs(driver) /\ p \in LatePairs(driver)
    BY DEF this, EarlyPairs, LatePairs, Pairs
  <2>2. QED
    BY <2>1, PairsServed DEF Alive
<1>2. QED
  BY <1>1, Invariance, PTL

(* The driver is entered only through what is set up: an interrupt, timer  *)
(* or open finds all it uses, at every moment of the driver's life.        *)
THEOREM AlwaysReadyWhenCalled == Spec /\ []LoadedFollowsRules => []ReadyWhenCalled
<1>1. IInv => ReadyWhenCalled
  <2> SUFFICES ASSUME IInv, NEW c \in Calls(driver), c.via \in Alive,
                      <<driver, c.name>> \notin IF phase = "probing" THEN KnownEarly ELSE KnownLate,
                      NEW u \in c.uses
               PROVE  u \in held
    BY DEF ReadyWhenCalled, Reachable, Alive
  <2> DEFINE p == <<c.via, u>>
  <2>1. p \in {c.via} \X c.uses /\ p[1] = c.via /\ p[2] = u
    OBVIOUS
  <2>2. p \in IF phase = "probing" THEN EarlyPairs(driver) ELSE LatePairs(driver)
    BY <2>1 DEF EarlyPairs, LatePairs, Pairs
  <2>3. QED
    BY <2>1, <2>2, PairsServed
<1>2. QED
  BY <1>1, Invariance, PTL

-----------------------------------------------------------------------------
(* A driver written by the book follows the rules. *)

LEMMA TextbookSteps ==
  ASSUME NEW d, Textbook(d)
  PROVE  /\ Len(Steps(d)) \in Nat /\ DOMAIN Steps(d) = 1 .. Len(Steps(d))
         /\ Activities(d) = {} /\ GivesUp(d) = {}
         /\ Failing(d) \subseteq 1 .. Len(Steps(d))
<1> DEFINE S == { Steps(d)[i] : i \in DOMAIN Steps(d) }
<1>1. Steps(d) \in Seq(S)
  BY DEF Textbook, PlainSteps
<1>2. Len(Steps(d)) \in Nat /\ DOMAIN Steps(d) = 1 .. Len(Steps(d))
  BY <1>1, LenProperties
<1>3. Activities(d) = {}
  BY DEF Activities, Textbook, PlainSteps
<1>4. GivesUp(d) = {}
  BY DEF GivesUp, Textbook, PlainSteps
<1>5. QED
  BY <1>2, <1>3, <1>4 DEF Failing

(* What the probe has acquired is certain, and is all that is live. *)
LEMMA TextbookLive ==
  ASSUME NEW d, Textbook(d), NEW i \in 1 .. Done(d)
  PROVE  /\ Certain(d, i) = UNION { Steps(d)[j].gets : j \in 1 .. i - 1 }
         /\ Live(d, i) = Certain(d, i)
         /\ Owned(d, i) \subseteq Certain(d, i)
         /\ 1 .. i - 1 \subseteq DOMAIN Steps(d)
<1>1. 1 .. i - 1 \subseteq DOMAIN Steps(d)
  BY TextbookSteps DEF Done
<1>2. \A j \in 1 .. i - 1 : Steps(d)[j].fails # "unnoticed" /\ Steps(d)[j].arms = {}
  BY <1>1 DEF Textbook, PlainSteps
<1>3. Certain(d, i) = UNION { Steps(d)[j].gets : j \in 1 .. i - 1 }
  <2>1. { k \in 1 .. i - 1 : Steps(d)[k].fails # "unnoticed" } = 1 .. i - 1
    BY <1>2
  <2>2. QED
    BY <2>1 DEF Certain
<1>4. Acquired(d, i) = Certain(d, i)
  BY <1>2, <1>3 DEF Acquired
<1>5. Live(d, i) = Acquired(d, i)
  BY DEF Live, Textbook, PlainSteps
<1>6. Owned(d, i) \subseteq Certain(d, i)
  BY <1>3 DEF Owned
<1>7. QED
  BY <1>1, <1>3, <1>4, <1>5, <1>6

(* A thing is acquired by one step, so that earlier is never later. *)
LEMMA AcquiredOnce ==
  ASSUME NEW d, Textbook(d), NEW a \in DOMAIN Steps(d), NEW b \in DOMAIN Steps(d),
         NEW r, r \in Steps(d)[a].gets, r \in Steps(d)[b].gets
  PROVE  a = b
BY DEF Textbook, PlainSteps

LEMMA NeverBothBefore ==
  ASSUME NEW d, Textbook(d), NEW u, NEW v, Before(d, u, v)
  PROVE  u # v /\ ~ Before(d, v, u)
<1>1. PICK a, b \in DOMAIN Steps(d) : a < b /\ u \in Steps(d)[a].gets /\ v \in Steps(d)[b].gets
  BY DEF Before
<1>2. a \in Nat /\ b \in Nat
  BY TextbookSteps
<1>3. u # v
  BY <1>1, <1>2, AcquiredOnce
<1>4. ASSUME Before(d, v, u) PROVE FALSE
  <2>1. PICK e, f \in DOMAIN Steps(d) : e < f /\ v \in Steps(d)[e].gets /\ u \in Steps(d)[f].gets
    BY <1>4 DEF Before
  <2>2. e = b /\ f = a
    BY <1>1, <2>1, AcquiredOnce
  <2>3. QED
    BY <1>1, <1>2, <2>1, <2>2
<1>5. QED
  BY <1>3, <1>4

(* When what depends is there, what it needs is there. *)
LEMMA NeededIsThere ==
  ASSUME NEW d, Textbook(d), NEW i \in 1 .. Done(d), NEW p \in Pairs(d, {}), p[1] \in Live(d, i)
  PROVE  p[2] \in Certain(d, i)
<1>1. PICK a, b \in DOMAIN Steps(d) :
        a < b /\ p[2] \in Steps(d)[a].gets /\ p[1] \in Steps(d)[b].gets
  BY DEF Textbook, AcquiredInOrder
<1>2. PICK j \in 1 .. i - 1 : p[1] \in Steps(d)[j].gets
  BY TextbookLive
<1>3. j = b
  BY <1>1, <1>2, AcquiredOnce, TextbookLive
<1>4. a \in 1 .. i - 1
  BY <1>1, <1>3, TextbookSteps DEF Done
<1>5. QED
  BY <1>1, <1>4, TextbookLive

(* What is live and depends is released by the driver, or after it by the  *)
(* core before what it needs.                                              *)
LEMMA OwnedOrManaged ==
  ASSUME NEW d, Textbook(d), NEW i \in 1 .. Done(d), NEW p \in Pairs(d, {}), p[1] \in Live(d, i)
  PROVE  /\ Before(d, p[2], p[1])
         /\ p[1] \in Owned(d, i) \/ (ManagedAfter(d, p[1], p[2]) /\ p[2] \notin Owned(d, i))
<1>1. PICK a, b \in DOMAIN Steps(d) :
        /\ a < b /\ p[2] \in Steps(d)[a].gets /\ p[1] \in Steps(d)[b].gets
        /\ Steps(d)[b].kind # "fact"
        /\ Steps(d)[b].kind = "managed" => Steps(d)[a].kind # "owned"
  BY DEF Textbook, AcquiredInOrder
<1>2. PICK j \in 1 .. i - 1 : p[1] \in Steps(d)[j].gets
  BY TextbookLive
<1>3. j = b
  BY <1>1, <1>2, AcquiredOnce, TextbookLive
<1>4. CASE Steps(d)[b].kind = "owned"
  BY <1>1, <1>3, <1>4 DEF Owned, Before
<1>5. CASE Steps(d)[b].kind = "managed"
  <2>1. p[1] \in CoreReleases(d)
    BY <1>1, <1>5 DEF CoreReleases
  <2>2. \A c \in DOMAIN Steps(d) : p[1] \in Steps(d)[c].gets => c = b
    BY <1>1, AcquiredOnce
  <2>3. \A c \in DOMAIN Steps(d) : p[2] \in Steps(d)[c].gets => c = a
    BY <1>1, AcquiredOnce
  <2>4. ManagedAfter(d, p[1], p[2])
    BY <1>1, <1>5, <2>1, <2>2, <2>3 DEF ManagedAfter
  <2>5. p[2] \notin Owned(d, i)
    BY <1>1, <1>5, <2>3, TextbookLive DEF Owned
  <2>6. QED
    BY <1>1, <2>4, <2>5 DEF Before
<1>6. Steps(d)[b].kind \in {"owned", "managed", "fact"}
  BY DEF Textbook, PlainSteps
<1>7. QED
  BY <1>1, <1>4, <1>5, <1>6

(* A list that releases all that is owned, latest first, finds it, and     *)
(* stops what depends before it releases what that needs.                  *)
LEMMA LatestFirstStops ==
  ASSUME NEW d, Textbook(d), NEW i \in 1 .. Done(d), NEW L \in Seq(Resources(d)),
         LatestFirst(d, i, L)
  PROVE  /\ Finds(d, L, Certain(d, i))
         /\ InOrder(d, L, Live(d, i))
         /\ Settles(d, L, Live(d, i))
<1>1. Len(L) \in Nat /\ DOMAIN L = 1 .. Len(L)
  BY LenProperties
<1>2. Finds(d, L, Certain(d, i))
  <2>1. \A k \in DOMAIN L : L[k] \in Certain(d, i)
    BY ItemOf, TextbookLive DEF LatestFirst
  <2>2. \A k \in DOMAIN L : \A j \in 1 .. k - 1 : L[j] # L[k]
    <3> SUFFICES ASSUME NEW k \in DOMAIN L, NEW j \in 1 .. k - 1 PROVE L[j] # L[k]
      OBVIOUS
    <3>1. j \in DOMAIN L /\ j < k
      BY <1>1
    <3>2. QED
      BY <3>1, NeverBothBefore DEF LatestFirst
  <2>3. QED
    BY <2>1, <2>2 DEF Finds
<1>3. ASSUME NEW v, v \notin Live(d, i)
      PROVE  Quiet(d, v, Live(d, i))
  BY <1>3 DEF Quiet, Textbook, PlainSteps
<1>4. ASSUME NEW p \in Pairs(d, {}), NEW j \in DOMAIN L, L[j] = p[1], NEW k, j \in 1 .. k - 1
      PROVE  StoppedBy(d, L, k, p[1], Live(d, i))
  BY <1>4 DEF StoppedBy, Textbook, PlainSteps
<1>5. ASSUME NEW p \in Pairs(d, {}), p[1] \in Owned(d, i)
      PROVE  \E j \in DOMAIN L : L[j] = p[1]
  BY <1>5 DEF LatestFirst, ToSet
<1>6. LatePairs(d) \subseteq Pairs(d, {})
  BY DEF LatePairs, Pairs
<1>7. InOrder(d, L, Live(d, i))
  <2> SUFFICES ASSUME NEW p \in Pairs(d, {}), NEW k \in DOMAIN L, L[k] = p[2]
               PROVE  StoppedBy(d, L, k, p[1], Live(d, i))
    BY <1>6 DEF InOrder
  <2>1. CASE p[1] \notin Live(d, i)
    BY <1>3, <2>1 DEF StoppedBy
  <2>2. CASE p[1] \in Live(d, i)
    <3>1. p[2] \in Owned(d, i)
      BY ItemOf DEF LatestFirst
    <3>2. Before(d, p[2], p[1]) /\ p[1] \in Owned(d, i)
      BY <2>2, <3>1, OwnedOrManaged
    <3>3. PICK j \in DOMAIN L : L[j] = p[1]
      BY <1>5, <3>2
    <3>4. ~ (k < j) /\ j # k
      BY <3>2, <3>3, NeverBothBefore DEF LatestFirst
    <3>5. j \in 1 .. k - 1
      BY <1>1, <3>4
    <3>6. QED
      BY <1>4, <3>3, <3>5
  <2>3. QED
    BY <2>1, <2>2
<1>8. Settles(d, L, Live(d, i))
  <2> SUFFICES ASSUME NEW p \in Pairs(d, {})
               PROVE  \/ StoppedBy(d, L, Len(L) + 1, p[1], Live(d, i))
                      \/ ManagedAfter(d, p[1], p[2])
    BY <1>6 DEF Settles
  <2>1. CASE p[1] \notin Live(d, i)
    BY <1>3, <2>1 DEF StoppedBy
  <2>2. CASE p[1] \in Owned(d, i)
    <3>1. PICK j \in DOMAIN L : L[j] = p[1]
      BY <1>5, <2>2
    <3>2. j \in 1 .. (Len(L) + 1) - 1
      BY <1>1
    <3>3. QED
      BY <1>4, <3>1, <3>2
  <2>3. CASE p[1] \in Live(d, i) /\ p[1] \notin Owned(d, i)
    BY <2>3, OwnedOrManaged
  <2>4. QED
    BY <2>1, <2>2, <2>3
<1>9. QED
  BY <1>2, <1>7, <1>8

(* Acquire in the order of the dependencies, look at every error, release  *)
(* latest first: nothing more is needed to follow all the rules.           *)
THEOREM TextbookFollowsRules ==
  ASSUME NEW d, Textbook(d)
  PROVE  FollowsRules(d)
<1>1. Done(d) \in 1 .. Done(d) /\ Failing(d) \subseteq 1 .. Done(d)
  BY TextbookSteps DEF Done
<1>2. Certain(d, Done(d)) = Resources(d)
  <2>1. 1 .. Done(d) - 1 = DOMAIN Steps(d)
    BY TextbookSteps DEF Done
  <2>2. QED
    BY <1>1, <2>1, TextbookLive DEF Resources
<1>3. \A i \in Failing(d) :
        Steps(d)[i].undo \in Seq(Resources(d)) /\ LatestFirst(d, i, Steps(d)[i].undo)
  BY DEF Textbook, Failing
<1>4. Drivers[d].remove \in Seq(Resources(d)) /\ LatestFirst(d, Done(d), Drivers[d].remove)
  BY DEF Textbook
<1>5. \A i \in Failing(d) :
        /\ Finds(d, Steps(d)[i].undo, Certain(d, i))
        /\ InOrder(d, Steps(d)[i].undo, Live(d, i))
        /\ Settles(d, Steps(d)[i].undo, Live(d, i))
  BY <1>1, <1>3, LatestFirstStops
<1>6. /\ Finds(d, Drivers[d].remove, Certain(d, Done(d)))
      /\ InOrder(d, Drivers[d].remove, Live(d, Done(d)))
      /\ Settles(d, Drivers[d].remove, Live(d, Done(d)))
  BY <1>1, <1>4, LatestFirstStops
<1>7. EarlyPairs(d) \subseteq Pairs(d, {}) /\ LatePairs(d) \subseteq Pairs(d, {})
  BY DEF EarlyPairs, LatePairs, Pairs
<1>8. WellFormed(d)
  <2>1. Activities(d) = {}
    BY TextbookSteps
  <2>2. \A c \in Calls(d) : c.arms = {}
    BY DEF Textbook, PlainSteps
  <2>3. \A L \in Seq(Resources(d)) : L \in Seq(Releasable(d))
    BY DEF Releasable
  <2>4. /\ \A i \in DOMAIN Steps(d) : Steps(d)[i].undo \in Seq(Releasable(d))
        /\ Drivers[d].remove \in Seq(Releasable(d))
    BY <2>3 DEF Textbook
  <2>5. QED
    BY <2>1, <2>2, <2>4 DEF Textbook, PlainSteps, WellFormed
<1>9. ReleasesAll(d)
  BY <1>3, <1>4 DEF ReleasesAll, LatestFirst
<1>10. ReleasesHeld(d)
  BY <1>5, <1>6, TextbookSteps DEF ReleasesHeld
<1>11. LooksAtResults(d)
  BY <1>2, TextbookSteps DEF LooksAtResults
<1>12. RegistersLast(d)
  BY <1>7, NeededIsThere DEF RegistersLast
<1>13. StopsFirst(d)
  <2>1. \A c \in Calls(d) : c.arms = {}
    BY DEF Textbook, PlainSteps
  <2>2. \A i \in Failing(d) \cup {Done(d)} : \A p \in LatePairs(d) :
          p[1] \in Live(d, i) => p[2] \in Certain(d, i)
    BY <1>1, <1>7, NeededIsThere
  <2>3. QED
    BY <1>5, <1>6, <2>1, <2>2 DEF StopsFirst
<1>14. QED
  BY <1>8, <1>9, <1>10, <1>11, <1>12, <1>13 DEF FollowsRules

(* The driver that is loaded stays the one, so its table, looked at before *)
(* it is loaded, decides for its life: a set of drivers that follow the    *)
(* rules leaks nothing, releases nothing twice, binds complete, and is     *)
(* never entered before or after its time.                                 *)
THEOREM RulesSuffice ==
  ASSUME \A d \in DOMAIN Drivers : FollowsRules(d)
  PROVE  Spec => [](/\ LoadedFollowsRules /\ NothingLeaks /\ NoStrayRelease
                    /\ BoundMeansComplete /\ DependentsFirst /\ ReadyWhenCalled)
<1> DEFINE J == driver \in DOMAIN Drivers
<1>1. Init => J
  BY DEF Init
<1>2. J /\ [Next]_vars => J'
  BY SameDriver
<1>3. J => LoadedFollowsRules
  BY DEF LoadedFollowsRules
<1>4. Spec => []LoadedFollowsRules
  BY <1>1, <1>2, <1>3, PTL DEF Spec
<1>5. QED
  BY <1>4, LeaksNever, StraysNever, CompleteWhenBound, DependentsNeverOutlive,
     AlwaysReadyWhenCalled, PTL

(* Drivers written by the book pass the check of their tables ... *)
THEOREM TextbooksFollowRules ==
  ASSUME \A d \in DOMAIN Drivers : Textbook(d)
  PROVE  Spec => []LoadedFollowsRules
<1>1. \A d \in DOMAIN Drivers : FollowsRules(d)
  BY TextbookFollowsRules
<1>2. QED
  BY <1>1, RulesSuffice, PTL

(* ... and keep all promises, whatever the lists of exceptions say. *)
THEOREM TextbooksKeepPromises ==
  ASSUME \A d \in DOMAIN Drivers : Textbook(d)
  PROVE  Spec => [](/\ NothingLeaks /\ NoStrayRelease /\ BoundMeansComplete
                    /\ DependentsFirst /\ ReadyWhenCalled)
<1>1. \A d \in DOMAIN Drivers : FollowsRules(d)
  BY TextbookFollowsRules
<1>2. QED
  BY <1>1, RulesSuffice, PTL
=============================================================================
