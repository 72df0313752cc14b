--------------------------- MODULE SearchHostProofs ---------------------------
(***************************************************************************)
(* What holds of the shared backend for any number of launchers, hosts and *)
(* inspectors, whoever dies: the two locks exclude what they are meant to, *)
(* so that a count of the interests made under the start lock is still     *)
(* right when the host acts on it.                                         *)
(***************************************************************************)
EXTENDS SearchHost, TLAPS

-----------------------------------------------------------------------------
\* Behind the start lock: an acquisition from its marker to its lease, and a
\* host from the count of the interests to the end of the backend.
Gate ==
    /\ \A l \in Launchers :
        launcher[l] \in {"writing", "locking", "marked", "probing", "awaiting"} => start = l
    /\ \A h \in Hosts : host[h] \in {"scanning", "killing"} => start = h

\* Behind the service lock: the clean-up before a host is started, and the
\* host from its election until it lets go.
Ownership ==
    /\ \A l \in Launchers : launcher[l] = "probing" => service = l
    /\ \A h \in Hosts :
        host[h] \in {"elected", "recording", "serving", "scanning", "rescanning",
                     "killing", "unrecording", "releasing"} => service = h

\* A marker is locked by its owner from before the lease to after it, and no
\* owner has it locked with less than its bytes in it.
Marked == \A l \in Launchers :
    /\ launcher[l] \in {"marked", "probing", "awaiting", "leased", "unlocking"} => lock[l] = l
    /\ launcher[l] \in {"locking", "marked", "probing", "awaiting", "leased"}
        => file[l] # "empty"

\* A lease is yet to be looked at by a count under the start lock, or the count
\* has come to something already.
CountCatchesLeases == \A h \in Hosts : host[h] = "scanning" =>
    \A l \in Launchers : Visible(l) => l \in todo[h] \/ verdict[h] # "none"

\* The same of the leases a lost backend is owed to.
CountCatchesOwed == \A h \in Hosts : host[h] = "rescanning" =>
    \A l \in owed : Visible(l) /\ (l \in todo[h] \/ verdict[h] # "none")

LocksExclude == Gate /\ Ownership /\ RecordNamesOwner
CountsHold == Marked /\ CountCatchesLeases /\ ShutdownSparesLeases /\ CountCatchesOwed

IInv == TypeOK /\ LocksExclude /\ CountsHold

USE SearchHostAssumption
USE DEF IInv, LocksExclude, CountsHold, TypeOK, Gate, Ownership, RecordNamesOwner, Marked, CountCatchesLeases,
        ShutdownSparesLeases, CountCatchesOwed, Visible, Scanners,
        vars, locks, marker, launching, hosting, scan,
        LauncherStates, HostStates, BackendStates, IdleStates, Verdicts

LEMMA Initially == Init => IInv
BY DEF Init

-----------------------------------------------------------------------------
\* Looking at a marker disturbs neither lock: nothing is deleted that is locked
\* by its owner, and every lease looked at is counted.
LEMMA ScansKeepInvariant ==
    ASSUME IInv, NEW s \in Scanners, ScanStep(s)
    PROVE  IInv'
<1> SUFFICES ASSUME NEW l \in Launchers,
                    \/ MarkerMissing(s, l) \/ MarkerBusy(s, l) \/ MarkerLocked(s, l)
                    \/ MarkerChecked(s, l) \/ MarkerRemoved(s, l)
             PROVE  IInv'
    BY DEF ScanStep
<1>1. CASE MarkerMissing(s, l)
  <2>1. TypeOK' BY <1>1 DEF MarkerMissing, Held, LooksAt, comes_to
  <2>2. LocksExclude' BY <1>1, <2>1 DEF MarkerMissing, Held, LooksAt, comes_to
  <2>3. CountsHold' BY <1>1, <2>1 DEF MarkerMissing, Held, LooksAt, comes_to
  <2> QED BY <2>1, <2>2, <2>3
<1>2. CASE MarkerBusy(s, l)
  <2>1. TypeOK' BY <1>2 DEF MarkerBusy, Held, LooksAt, comes_to
  <2>2. LocksExclude' BY <1>2, <2>1 DEF MarkerBusy, Held, LooksAt, comes_to
  <2>3. CountsHold' BY <1>2, <2>1 DEF MarkerBusy, Held, LooksAt, comes_to
  <2> QED BY <2>1, <2>2, <2>3
<1>3. CASE MarkerLocked(s, l)
  <2>1. TypeOK' BY <1>3 DEF MarkerLocked, Held, LooksAt
  <2>2. LocksExclude' BY <1>3, <2>1 DEF MarkerLocked, Held, LooksAt
  <2>3. CountsHold' BY <1>3, <2>1 DEF MarkerLocked, Held, LooksAt
  <2> QED BY <2>1, <2>2, <2>3
<1>4. CASE MarkerChecked(s, l)
  <2>1. TypeOK' BY <1>4 DEF MarkerChecked
  <2>2. LocksExclude' BY <1>4, <2>1 DEF MarkerChecked
  <2>3. CountsHold' BY <1>4, <2>1 DEF MarkerChecked
  <2> QED BY <2>1, <2>2, <2>3
<1>5. CASE MarkerRemoved(s, l)
  <2>1. TypeOK' BY <1>5 DEF MarkerRemoved
  <2>2. LocksExclude' BY <1>5, <2>1 DEF MarkerRemoved
  <2>3. CountsHold' BY <1>5, <2>1 DEF MarkerRemoved
  <2> QED BY <2>1, <2>2, <2>3
<1> QED BY <1>1, <1>2, <1>3, <1>4, <1>5

LEMMA InspectionsKeepInvariant ==
    ASSUME IInv, NEW s \in Inspectors, Inspect(s)
    PROVE  IInv'
<1>1. TypeOK' BY DEF Inspect, list
<1>2. LocksExclude' BY <1>1 DEF Inspect, list
<1>3. CountsHold' BY <1>1 DEF Inspect, list
<1> QED BY <1>1, <1>2, <1>3

\* Between its marker and its lease a launcher holds the start lock, so no lease
\* appears behind the back of a host that counts.
LEMMA LaunchersKeepInvariant ==
    ASSUME IInv, NEW l \in Launchers, LauncherStep(l)
    PROVE  IInv'
<1>1. CASE GateTimeout(l)
  <2>1. TypeOK' BY <1>1 DEF GateTimeout
  <2>2. LocksExclude' BY <1>1, <2>1 DEF GateTimeout
  <2>3. CountsHold' BY <1>1, <2>1 DEF GateTimeout
  <2> QED BY <2>1, <2>2, <2>3
<1>2. CASE OpenMarker(l)
  <2>1. TypeOK' BY <1>2 DEF OpenMarker
  <2>2. LocksExclude' BY <1>2, <2>1 DEF OpenMarker
  <2>3. CountsHold' BY <1>2, <2>1 DEF OpenMarker
  <2> QED BY <2>1, <2>2, <2>3
<1>3. CASE WriteMarker(l)
  <2>1. TypeOK' BY <1>3 DEF WriteMarker
  <2>2. LocksExclude' BY <1>3, <2>1 DEF WriteMarker
  <2>3. CountsHold' BY <1>3, <2>1 DEF WriteMarker
  <2> QED BY <2>1, <2>2, <2>3
<1>4. CASE LockMarker(l)
  <2>1. TypeOK' BY <1>4 DEF LockMarker
  <2>2. LocksExclude' BY <1>4, <2>1 DEF LockMarker
  <2>3. CountsHold' BY <1>4, <2>1 DEF LockMarker
  <2> QED BY <2>1, <2>2, <2>3
<1>5. CASE JoinService(l)
  <2>1. TypeOK' BY <1>5 DEF JoinService
  <2>2. LocksExclude' BY <1>5, <2>1 DEF JoinService
  <2>3. CountsHold' BY <1>5, <2>1 DEF JoinService
  <2> QED BY <2>1, <2>2, <2>3
<1>6. CASE TakeService(l)
  <2>1. TypeOK' BY <1>6 DEF TakeService
  <2>2. LocksExclude' BY <1>6, <2>1 DEF TakeService
  <2>3. CountsHold' BY <1>6, <2>1 DEF TakeService
  <2> QED BY <2>1, <2>2, <2>3
<1>7. CASE EndpointTaken(l)
  <2>1. TypeOK' BY <1>7 DEF EndpointTaken
  <2>2. LocksExclude' BY <1>7, <2>1 DEF EndpointTaken
  <2>3. CountsHold' BY <1>7, <2>1 DEF EndpointTaken
  <2> QED BY <2>1, <2>2, <2>3
<1>8. CASE StartFails(l)
  <2>1. TypeOK' BY <1>8 DEF StartFails
  <2>2. LocksExclude' BY <1>8, <2>1 DEF StartFails
  <2>3. CountsHold' BY <1>8, <2>1 DEF StartFails
  <2> QED BY <2>1, <2>2, <2>3
<1>9. CASE Lease(l)
  <2>1. TypeOK' BY <1>9 DEF Lease
  <2>2. LocksExclude' BY <1>9, <2>1 DEF Lease
  <2>3. CountsHold' BY <1>9, <2>1 DEF Lease
  <2> QED BY <2>1, <2>2, <2>3
<1>10. CASE GiveUp(l)
  <2>1. TypeOK' BY <1>10 DEF GiveUp
  <2>2. LocksExclude' BY <1>10, <2>1 DEF GiveUp
  <2>3. CountsHold' BY <1>10, <2>1 DEF GiveUp
  <2> QED BY <2>1, <2>2, <2>3
<1>11. CASE UnlockMarker(l)
  <2>1. TypeOK' BY <1>11 DEF UnlockMarker
  <2>2. LocksExclude' BY <1>11, <2>1 DEF UnlockMarker
  <2>3. CountsHold' BY <1>11, <2>1 DEF UnlockMarker
  <2> QED BY <2>1, <2>2, <2>3
<1>12. CASE UnlinkMarker(l)
  <2>1. TypeOK' BY <1>12 DEF UnlinkMarker, Freed
  <2>2. LocksExclude' BY <1>12, <2>1 DEF UnlinkMarker, Freed
  <2>3. CountsHold' BY <1>12, <2>1 DEF UnlinkMarker, Freed
  <2> QED BY <2>1, <2>2, <2>3
<1>13. CASE Request(l)
  <2>1. TypeOK' BY <1>13 DEF Request
  <2>2. LocksExclude' BY <1>13, <2>1 DEF Request
  <2>3. CountsHold' BY <1>13, <2>1 DEF Request
  <2> QED BY <2>1, <2>2, <2>3
<1>14. CASE Release(l)
  <2>1. TypeOK' BY <1>14 DEF Release
  <2>2. LocksExclude' BY <1>14, <2>1 DEF Release
  <2>3. CountsHold' BY <1>14, <2>1 DEF Release
  <2> QED BY <2>1, <2>2, <2>3
<1>15. CASE LauncherDies(l)
  <2>1. TypeOK' BY <1>15 DEF LauncherDies, Freed
  <2>2. LocksExclude' BY <1>15, <2>1 DEF LauncherDies, Freed
  <2>3. CountsHold' BY <1>15, <2>1 DEF LauncherDies, Freed
  <2> QED BY <2>1, <2>2, <2>3
<1>16. ASSUME NEW h \in Hosts, SpawnHost(l, h) PROVE IInv'
  <2>1. TypeOK' BY <1>16 DEF SpawnHost
  <2>2. LocksExclude' BY <1>16, <2>1 DEF SpawnHost
  <2>3. CountsHold' BY <1>16, <2>1 DEF SpawnHost
  <2> QED BY <2>1, <2>2, <2>3
<1> QED BY <1>1, <1>2, <1>3, <1>4, <1>5, <1>6, <1>7, <1>8, <1>9, <1>10, <1>11, <1>12, <1>13, <1>14, <1>15, <1>16
    DEF LauncherStep, AcquireStep

\* A host changes what the locks protect only while it holds them.
LEMMA HostsKeepInvariant ==
    ASSUME IInv, NEW h \in Hosts, HostStep(h)
    PROVE  IInv'
<1>1. CASE Elect(h)
  <2>1. TypeOK' BY <1>1 DEF Elect
  <2>2. LocksExclude' BY <1>1, <2>1 DEF Elect
  <2>3. CountsHold' BY <1>1, <2>1 DEF Elect
  <2> QED BY <2>1, <2>2, <2>3
<1>2. CASE SpawnBackend(h)
  <2>1. TypeOK' BY <1>2 DEF SpawnBackend
  <2>2. LocksExclude' BY <1>2, <2>1 DEF SpawnBackend
  <2>3. CountsHold' BY <1>2, <2>1 DEF SpawnBackend
  <2> QED BY <2>1, <2>2, <2>3
<1>3. CASE SpawnFails(h)
  <2>1. TypeOK' BY <1>3 DEF SpawnFails, Returns
  <2>2. LocksExclude' BY <1>3, <2>1 DEF SpawnFails, Returns
  <2>3. CountsHold' BY <1>3, <2>1 DEF SpawnFails, Returns
  <2> QED BY <2>1, <2>2, <2>3
<1>4. CASE WriteRecord(h)
  <2>1. TypeOK' BY <1>4 DEF WriteRecord
  <2>2. LocksExclude' BY <1>4, <2>1 DEF WriteRecord
  <2>3. CountsHold' BY <1>4, <2>1 DEF WriteRecord
  <2> QED BY <2>1, <2>2, <2>3
<1>5. CASE PollBusy(h)
  <2>1. TypeOK' BY <1>5 DEF PollBusy
  <2>2. LocksExclude' BY <1>5, <2>1 DEF PollBusy
  <2>3. CountsHold' BY <1>5, <2>1 DEF PollBusy
  <2> QED BY <2>1, <2>2, <2>3
<1>6. CASE Poll(h)
  <2>1. TypeOK' BY <1>6 DEF Poll, list
  <2>2. LocksExclude' BY <1>6, <2>1 DEF Poll, list
  <2>3. CountsHold' BY <1>6, <2>1 DEF Poll, list
  <2> QED BY <2>1, <2>2, <2>3
<1>7. CASE StayUp(h)
  <2>1. TypeOK' BY <1>7 DEF StayUp, acted
  <2>2. LocksExclude' BY <1>7, <2>1 DEF StayUp, acted
  <2>3. CountsHold' BY <1>7, <2>1 DEF StayUp, acted
  <2> QED BY <2>1, <2>2, <2>3
<1>8. CASE ShutDown(h)
  <2>1. TypeOK' BY <1>8 DEF ShutDown, acted, Scanning, Held
  <2>2. LocksExclude' BY <1>8, <2>1 DEF ShutDown, acted, Scanning, Held
  <2>3. CountsHold' BY <1>8, <2>1 DEF ShutDown, acted, Scanning, Held
  <2> QED BY <2>1, <2>2, <2>3
<1>9. CASE KillBackend(h)
  <2>1. TypeOK' BY <1>9 DEF KillBackend, Returns
  <2>2. LocksExclude' BY <1>9, <2>1 DEF KillBackend, Returns
  <2>3. CountsHold' BY <1>9, <2>1 DEF KillBackend, Returns
  <2> QED BY <2>1, <2>2, <2>3
<1>10. CASE BackendLost(h)
  <2>1. /\ host[h] = "serving" /\ backend[h] = "none"
        /\ idle' = [idle EXCEPT ![h] = "no"]
        /\ UNCHANGED <<locks, record, marker, launching, backend, doomed, verdict>>
    BY <1>10 DEF BackendLost
  <2>2. recovered' \in [Hosts -> BOOLEAN]
    <3>1. recovered' = [recovered EXCEPT ![h] = FALSE] \/ recovered' = recovered
      BY <1>10 DEF BackendLost, Returns
    <3>2. recovered \in [Hosts -> BOOLEAN]
      BY DEF TypeOK
    <3> QED BY ONLY <3>1, <3>2
  <2>3. CASE recovered[h]
    <3>1. /\ host' = [host EXCEPT ![h] = "unrecording"]
          /\ todo' = todo /\ owed' = owed
      BY <1>10, <2>3 DEF BackendLost, Returns
    <3>2. TypeOK' BY <2>1, <2>2, <3>1
    <3>3. LocksExclude' BY <2>1, <3>1, <3>2
    <3>4. CountsHold' BY <2>1, <3>1, <3>2
    <3> QED BY <3>2, <3>3, <3>4
  <2>4. CASE ~recovered[h]
    <3>1. /\ host' = [host EXCEPT ![h] = "rescanning"]
          /\ list(h)
          /\ owed' = {l \in Launchers : Visible(l)}
      BY <1>10, <2>4 DEF BackendLost
    <3>2. TypeOK' BY <2>1, <2>2, <3>1 DEF list
    <3>3. LocksExclude' BY <2>1, <3>1, <3>2
    <3>4. CountsHold' BY <2>1, <3>1, <3>2 DEF list
    <3> QED BY <3>2, <3>3, <3>4
  <2> QED BY <2>3, <2>4
<1>11. CASE Recover(h)
  <2>1. TypeOK' BY <1>11 DEF Recover, acted
  <2>2. LocksExclude' BY <1>11, <2>1 DEF Recover, acted
  <2>3. CountsHold' BY <1>11, <2>1 DEF Recover, acted
  <2> QED BY <2>1, <2>2, <2>3
<1>12. CASE GiveUpService(h)
  <2>1. TypeOK' BY <1>12 DEF GiveUpService, Returns, acted
  <2>2. LocksExclude' BY <1>12, <2>1 DEF GiveUpService, Returns, acted
  <2>3. CountsHold' BY <1>12, <2>1 DEF GiveUpService, Returns, acted
  <2> QED BY <2>1, <2>2, <2>3
<1>13. CASE RemoveRecord(h)
  <2>1. TypeOK' BY <1>13 DEF RemoveRecord
  <2>2. LocksExclude' BY <1>13, <2>1 DEF RemoveRecord
  <2>3. CountsHold' BY <1>13, <2>1 DEF RemoveRecord
  <2> QED BY <2>1, <2>2, <2>3
<1>14. CASE DropService(h)
  <2>1. TypeOK' BY <1>14 DEF DropService
  <2>2. LocksExclude' BY <1>14, <2>1 DEF DropService
  <2>3. CountsHold' BY <1>14, <2>1 DEF DropService
  <2> QED BY <2>1, <2>2, <2>3
<1>15. CASE Exit(h)
  <2>1. TypeOK' BY <1>15 DEF Exit, Freed
  <2>2. LocksExclude' BY <1>15, <2>1 DEF Exit, Freed
  <2>3. CountsHold' BY <1>15, <2>1 DEF Exit, Freed
  <2> QED BY <2>1, <2>2, <2>3
<1>16. CASE HostDies(h)
  <2>1. TypeOK' BY <1>16 DEF HostDies, Freed
  <2>2. LocksExclude' BY <1>16, <2>1 DEF HostDies, Freed
  <2>3. CountsHold' BY <1>16, <2>1 DEF HostDies, Freed
  <2> QED BY <2>1, <2>2, <2>3
<1>17. CASE GraceEnds(h)
  <2>1. TypeOK' BY <1>17 DEF GraceEnds
  <2>2. LocksExclude' BY <1>17, <2>1 DEF GraceEnds
  <2>3. CountsHold' BY <1>17, <2>1 DEF GraceEnds
  <2> QED BY <2>1, <2>2, <2>3
<1>18. CASE BackendListens(h)
  <2>1. TypeOK' BY <1>18 DEF BackendListens
  <2>2. LocksExclude' BY <1>18, <2>1 DEF BackendListens
  <2>3. CountsHold' BY <1>18, <2>1 DEF BackendListens
  <2> QED BY <2>1, <2>2, <2>3
<1>19. CASE BackendExits(h)
  <2>1. TypeOK' BY <1>19 DEF BackendExits
  <2>2. LocksExclude' BY <1>19, <2>1 DEF BackendExits
  <2>3. CountsHold' BY <1>19, <2>1 DEF BackendExits
  <2> QED BY <2>1, <2>2, <2>3
<1>20. CASE RecordFails(h)
  <2>1. TypeOK' BY <1>20 DEF RecordFails, Returns
  <2>2. LocksExclude' BY <1>20, <2>1 DEF RecordFails, Returns
  <2>3. CountsHold' BY <1>20, <2>1 DEF RecordFails, Returns
  <2> QED BY <2>1, <2>2, <2>3
<1>21. CASE KillFails(h)
  <2>1. TypeOK' BY <1>21 DEF KillFails, Returns
  <2>2. LocksExclude' BY <1>21, <2>1 DEF KillFails, Returns
  <2>3. CountsHold' BY <1>21, <2>1 DEF KillFails, Returns
  <2> QED BY <2>1, <2>2, <2>3
<1> QED BY <1>1, <1>2, <1>3, <1>4, <1>5, <1>6, <1>7, <1>8, <1>9, <1>10, <1>11, <1>12, <1>13, <1>14, <1>15, <1>16, <1>17, <1>18, <1>19, <1>20, <1>21
    DEF HostStep, ServeStep

-----------------------------------------------------------------------------
\* The invariant the others follow from: what a count made under the start lock
\* says stays true until the host has acted on it.
THEOREM Inductive == Spec => []IInv
<1>1. IInv /\ [Next]_vars => IInv'
  <2> SUFFICES ASSUME IInv, [Next]_vars PROVE IInv'
    OBVIOUS
  <2>1. CASE UNCHANGED vars BY <2>1
  <2>2. CASE Next
    BY <2>2, ScansKeepInvariant, InspectionsKeepInvariant, LaunchersKeepInvariant,
       HostsKeepInvariant DEF Next
  <2> QED BY <2>1, <2>2
<1> HIDE DEF IInv
<1> QED BY Initially, <1>1, PTL DEF Spec

\* The variables keep their types.
THEOREM SearchTypes == Spec => []TypeOK
<1>1. IInv => TypeOK OBVIOUS
<1> HIDE DEF IInv, TypeOK
<1> QED BY Inductive, <1>1, PTL

\* An idle shutdown kills no backend of a lease its directory lists.
THEOREM IdleShutdownSparesLeases == Spec => []ShutdownSparesLeases
<1>1. IInv => ShutdownSparesLeases OBVIOUS
<1> HIDE DEF IInv, ShutdownSparesLeases
<1> QED BY Inductive, <1>1, PTL

\* The record names the host that serves, which has the service lock.
THEOREM ServingHostIsRecorded == Spec => []RecordNamesOwner
<1>1. IInv => RecordNamesOwner OBVIOUS
<1> HIDE DEF IInv, RecordNamesOwner
<1> QED BY Inductive, <1>1, PTL

\* A lease that lost its backend and still stands makes the host start another.
THEOREM LostBackendsAreReplaced == Spec => RecoversForLeases
<1> DEFINE Replaces ==
        \A h \in Hosts : GiveUpService(h) => verdict[h] = "failed" \/ owed = {}
<1>1. IInv => Replaces
  <2> SUFFICES ASSUME IInv, NEW h \in Hosts, GiveUpService(h), verdict[h] # "failed"
               PROVE  owed = {}
    OBVIOUS
  <2>1. verdict[h] = "none" /\ todo[h] = {} BY DEF GiveUpService, acted, Scanning
  <2> QED BY <2>1 DEF GiveUpService
<1>2. IInv /\ [Next]_vars => [Replaces]_vars BY <1>1
<1> HIDE DEF IInv, Replaces
<1>3. Spec => [][Replaces]_vars BY Inductive, <1>2, PTL DEF Spec
<1> QED BY <1>3 DEF RecoversForLeases, Replaces
==============================================================================
