--------------------------- MODULE LifecycleRules ---------------------------
(***************************************************************************)
(* Rules for the table of a driver that can be read off the table, without *)
(* running it: what to release at each error label and in the remove       *)
(* function, and in which order to register and to release.  A driver that *)
(* follows them keeps the promises of module Lifecycle (LifecycleProofs).  *)
(***************************************************************************)
EXTENDS Lifecycle

Failing(d) == { i \in DOMAIN Steps(d) : Steps(d)[i].fails \in {"error", "success"} }
GivesUp(d) == { i \in DOMAIN Steps(d) : Steps(d)[i].fails = "success" }
Done(d)    == Len(Steps(d)) + 1

(* What is sure to be held when step i begins: what earlier steps have     *)
(* acquired that cannot have failed unnoticed.                             *)
Certain(d, i) ==
  UNION { Steps(d)[j].gets : j \in { k \in 1 .. i - 1 : Steps(d)[k].fails # "unnoticed" } }

(* What may be live by then: what earlier steps have acquired or armed,    *)
(* and what the entry points reachable through that arm.                   *)
Acquired(d, i) == UNION { Steps(d)[j].gets \cup Steps(d)[j].arms : j \in 1 .. i - 1 }
Live(d, i) ==
  Acquired(d, i) \cup UNION { c.arms : c \in { e \in Calls(d) : e.via \in Acquired(d, i) } }

(* What the driver itself has to release, and what the driver core does.   *)
Owned(d, i) ==
  UNION { Steps(d)[j].gets : j \in { k \in 1 .. i - 1 : Steps(d)[k].kind = "owned" } }
CoreReleases(d) ==
  UNION { Steps(d)[j].gets : j \in { k \in DOMAIN Steps(d) : Steps(d)[k].kind = "managed" } }

-----------------------------------------------------------------------------
(* The tables are well-formed: a devm_ call acquires one thing, labels and *)
(* remove functions release what the driver has or a known stray, nothing  *)
(* is a resource and an activity, and an activity arms nothing but itself  *)
(* again.                                                                  *)
WellFormed(d) ==
  /\ Steps(d) \in Seq({ Steps(d)[i] : i \in DOMAIN Steps(d) })
  /\ \A i \in DOMAIN Steps(d) :
       /\ Steps(d)[i].kind \in {"owned", "managed", "fact"}
       /\ Steps(d)[i].kind = "managed" => \E r \in Resources(d) : Steps(d)[i].gets = {r}
       /\ Steps(d)[i].undo \in Seq(Releasable(d))
  /\ Drivers[d].remove \in Seq(Releasable(d))
  /\ Resources(d) \cap Activities(d) = {}
  /\ \A c \in Calls(d) : c.via \in Activities(d) => c.arms \subseteq {c.via}

(* Every error label, and the remove function, releases all that the       *)
(* driver core does not.                                                   *)
ReleasesAll(d) ==
  LET Forgotten(i, L) == { r \in Owned(d, i) \ ToSet(L) : <<d, r>> \notin KnownLeaks }
  IN  /\ \A i \in Failing(d) \ GivesUp(d) : Forgotten(i, Steps(d)[i].undo) = {}
      /\ Forgotten(Done(d), Drivers[d].remove) = {}

(* A list of releases that finds each of its resources in H, once.         *)
Finds(d, L, H) ==
  \A k \in DOMAIN L :
    \/ L[k] \in Activities(d)
    \/ <<d, L[k]>> \in KnownStrays
    \/ L[k] \in H /\ \A j \in 1 .. k - 1 : L[j] # L[k]

(* What a probe that gives up at step i, but returns success, leaves held. *)
Left(d, i) == Certain(d, i) \ ToSet(Steps(d)[i].undo)

(* Every error label, and the remove function, releases only what is held  *)
(* for sure.                                                               *)
ReleasesHeld(d) ==
  /\ \A i \in Failing(d) : Finds(d, Steps(d)[i].undo, Certain(d, i))
  /\ Finds(d, Drivers[d].remove, Certain(d, Done(d)))
  /\ \A i \in GivesUp(d) : Finds(d, Drivers[d].remove, Left(d, i))

(* The results of all calls are looked at.                                 *)
LooksAtResults(d) ==
  /\ \A r \in Resources(d) \ Certain(d, Done(d)) : <<d, r>> \in KnownGaps
  /\ \A i \in GivesUp(d) : \A r \in Resources(d) \ Left(d, i) : <<d, r>> \in KnownGaps

-----------------------------------------------------------------------------
(* Pairs <<v, u>>: v may be live only while u is held, since v is built on *)
(* u, or is how an entry point is reached that uses u.                     *)
Pairs(d, Exceptions) ==
  { p \in Drivers[d].needs : <<d, p[1]>> \notin KnownOrphans }
    \cup UNION { {c.via} \X c.uses : c \in { e \in Calls(d) : <<d, e.name>> \notin Exceptions } }

EarlyPairs(d) == Pairs(d, KnownEarly)
LatePairs(d)  == Pairs(d, KnownLate)

(* Register last: what an entry point uses is set up before the entry      *)
(* point can be reached, at every step of the probe.                       *)
RegistersLast(d) ==
  \A i \in 1 .. Done(d) : \A p \in EarlyPairs(d) :
    p[1] \in Live(d, i) => p[2] \in Certain(d, i)

(* v is not live, and nothing that is can arm it. *)
Quiet(d, v, live) == v \notin live /\ \A c \in Calls(d) : v \in c.arms => c.via \notin live

(* When the releases of L before the k-th are done v is quiet for good: it *)
(* is stopped after everything that arms it.                               *)
StoppedBy(d, L, k, v, live) ==
  \/ Quiet(d, v, live)
  \/ \E j \in 1 .. k - 1 :
       /\ L[j] = v
       /\ \A c \in Calls(d) : v \in c.arms /\ c.via # v =>
            c.via \notin live \/ \E i \in 1 .. j - 1 : L[i] = c.via

(* No release takes away what something live needs. *)
InOrder(d, L, live) ==
  \A p \in LatePairs(d) : \A k \in DOMAIN L : L[k] = p[2] => StoppedBy(d, L, k, p[1], live)

(* Only the core releases v, and before it releases u. *)
ManagedAfter(d, v, u) ==
  /\ v \in CoreReleases(d)
  /\ \A b \in DOMAIN Steps(d) : v \in Steps(d)[b].gets =>
       /\ Steps(d)[b].kind = "managed"
       /\ \A a \in DOMAIN Steps(d) : u \in Steps(d)[a].gets /\ Steps(d)[a].kind = "managed" => a < b

(* After L nothing is live that needs what goes with the device, except    *)
(* what goes before it.                                                    *)
Settles(d, L, live) ==
  \A p \in LatePairs(d) : p[2] \in CoreReleases(d) \cup Facts(d) =>
    StoppedBy(d, L, Len(L) + 1, p[1], live) \/ ManagedAfter(d, p[1], p[2])

(* Stop first: a probe that fails, and a removal, release nothing before   *)
(* what needs it is stopped for good.                                      *)
StopsFirst(d) ==
  /\ \A p \in LatePairs(d) : \A c \in Calls(d) :
       p[1] \in c.arms => <<c.via, p[2]>> \in LatePairs(d)
  /\ \A i \in Failing(d) \cup {Done(d)} : \A p \in LatePairs(d) :
       p[1] \in Live(d, i) => p[2] \in Certain(d, i)
  /\ \A i \in Failing(d) :
       /\ InOrder(d, Steps(d)[i].undo, Live(d, i))
       /\ Steps(d)[i].fails = "error" => Settles(d, Steps(d)[i].undo, Live(d, i))
  /\ InOrder(d, Drivers[d].remove, Live(d, Done(d)))
  /\ Settles(d, Drivers[d].remove, Live(d, Done(d)))

-----------------------------------------------------------------------------
FollowsRules(d) ==
  /\ WellFormed(d)
  /\ ReleasesAll(d)
  /\ ReleasesHeld(d)
  /\ LooksAtResults(d)
  /\ RegistersLast(d)
  /\ StopsFirst(d)

(* The table of every driver that is loaded follows all rules, apart from  *)
(* what the lists of known exceptions name: its probe, error labels and    *)
(* remove function are in an order that no failure and no call can upset.  *)
LoadedFollowsRules == phase = "absent" => FollowsRules(driver)
-----------------------------------------------------------------------------
(* The textbook probe, which most drivers that get it right are: every     *)
(* error looked at, each thing acquired by one step, nothing armed, what a *)
(* thing is built on acquired before it, and everything released latest    *)
(* first, at the error labels as in the remove function.                   *)

(* u is acquired by an earlier step than v. *)
Before(d, u, v) ==
  \E a, b \in DOMAIN Steps(d) : a < b /\ u \in Steps(d)[a].gets /\ v \in Steps(d)[b].gets

PlainSteps(d) ==
  /\ Steps(d) \in Seq({ Steps(d)[i] : i \in DOMAIN Steps(d) })
  /\ \A i \in DOMAIN Steps(d) :
       /\ Steps(d)[i].kind \in {"owned", "managed", "fact"}
       /\ Steps(d)[i].kind = "managed" => \E r \in Resources(d) : Steps(d)[i].gets = {r}
       /\ Steps(d)[i].fails \in {"never", "error"}
       /\ Steps(d)[i].arms = {}
       /\ \A j \in DOMAIN Steps(d) : j # i => Steps(d)[i].gets \cap Steps(d)[j].gets = {}
  /\ \A c \in Calls(d) : c.arms = {}

(* Nothing that depends is an initialisation, and no managed thing is      *)
(* built on one that the driver releases itself, before the core comes.    *)
AcquiredInOrder(d) ==
  \A p \in Pairs(d, {}) :
    \E a, b \in DOMAIN Steps(d) :
      /\ a < b
      /\ p[2] \in Steps(d)[a].gets
      /\ p[1] \in Steps(d)[b].gets
      /\ Steps(d)[b].kind # "fact"
      /\ Steps(d)[b].kind = "managed" => Steps(d)[a].kind # "owned"

(* L releases all that the driver owns when step i begins, latest first. *)
LatestFirst(d, i, L) ==
  /\ ToSet(L) = Owned(d, i)
  /\ \A j, k \in DOMAIN L : j < k => Before(d, L[k], L[j])

Textbook(d) ==
  /\ PlainSteps(d)
  /\ AcquiredInOrder(d)
  /\ \A i \in DOMAIN Steps(d) : Steps(d)[i].undo \in Seq(Resources(d))
  /\ \A i \in Failing(d) : LatestFirst(d, i, Steps(d)[i].undo)
  /\ Drivers[d].remove \in Seq(Resources(d))
  /\ LatestFirst(d, Done(d), Drivers[d].remove)
=============================================================================
