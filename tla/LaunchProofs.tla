----------------------------- MODULE LaunchProofs -----------------------------
(***************************************************************************)
(* What a launch owes its processes while they live, and its user when it  *)
(* says it went well, in every order in which clients, helpers, owners,    *)
(* bridges, signals, timers and callers can act on it; and that every step *)
(* of a launch uses up some of the finitely many it has ahead of it.       *)
(***************************************************************************)
EXTENDS LaunchSupervisor, Integers, TLAPS

-----------------------------------------------------------------------------
(* Types.                                                                    *)

USE DEF Over, Alive, Tasks, ProcessStates, launch, files, processes

LEMMA LaunchTypeInit == Init => TypeOK
BY LaunchAssumption DEF Init, TypeOK

\* TypeOK in three parts: where the launch stands, its flags, and its processes.
ControlTypes ==
    /\ at \in Tasks \cup {"start", "supervise", "terminate", "reap", "drain",
                          "clear", "bridge", "returned"}
    /\ outcome \in {NONE, "exited", "cancelled", "error"}
    /\ result \in {NONE, "exited", "cancelled", "error", "dropped"}
    /\ bridge \in {"none", "serving", "stopping", "ended", "broken"}
    /\ at \in {"terminate", "reap", "bridge"} => outcome # NONE
    /\ result = NONE <=> at # "returned"

FlagTypes ==
    /\ bridged \in BOOLEAN /\ hermes \in BOOLEAN /\ signalled \in BOOLEAN
    /\ staged \in BOOLEAN /\ retain \in BOOLEAN /\ uncertain \in BOOLEAN

ProcessTypes ==
    /\ workspace \in {"there", "kept", "removed"}
    /\ client \in ProcessStates \ {"left"} /\ owner \in ProcessStates
    /\ helper \in ProcessStates \ {"left"}

LEMMA TypesInParts == /\ TypeOK <=> ControlTypes /\ FlagTypes /\ ProcessTypes
                      /\ TypeOK' <=> ControlTypes' /\ FlagTypes' /\ ProcessTypes'
BY DEF TypeOK, ControlTypes, FlagTypes, ProcessTypes

\* However a launch is wound up, it ends at the bridge and knows what to return.
WoundUp ==
    /\ at' = "bridge" /\ outcome' \in {"exited", "cancelled", "error"}
    /\ bridge' \in {"none", "stopping", "ended", "broken"}

LEMMA ConcludeWindsUp ==
    ASSUME ControlTypes, NEW o \in {"exited", "cancelled", "error"}, Conclude(o)
    PROVE  WoundUp
BY DEF ControlTypes, Conclude, WoundUp

LEMMA StoppedWindsUp ==
    ASSUME ControlTypes, NotStarted \/ Stopped(TRUE) \/ Stopped(FALSE)
    PROVE  WoundUp
BY ConcludeWindsUp DEF ControlTypes, NotStarted, Stopped

LEMMA LaunchTypeNext == TypeOK /\ [Next]_vars => TypeOK'
<1> SUFFICES ASSUME ControlTypes, FlagTypes, ProcessTypes, [Next]_vars
             PROVE  ControlTypes' /\ FlagTypes' /\ ProcessTypes'
    BY TypesInParts
<1> USE LaunchAssumption DEF ControlTypes, FlagTypes, ProcessTypes, Goto, mark_uncertain, WoundUp
<1>1. CASE Start
    <2>1. ControlTypes'
        BY <1>1, ConcludeWindsUp, StoppedWindsUp DEF Start
    <2>2. FlagTypes'
        BY <1>1 DEF Start
    <2>3. ProcessTypes'
        BY <1>1 DEF Start
    <2> QED
        BY <2>1, <2>2, <2>3
<1>2. CASE GiveUpHelper
    BY <1>2 DEF GiveUpHelper
<1>3. CASE HelperSucceeds
    <2>1. ControlTypes'
        BY <1>3, ConcludeWindsUp, StoppedWindsUp DEF HelperSucceeds, Spawn, SpawnOwner, SpawnClient
    <2>2. FlagTypes'
        BY <1>3 DEF HelperSucceeds, Spawn, SpawnOwner, SpawnClient
    <2>3. ProcessTypes'
        BY <1>3 DEF HelperSucceeds, Spawn, SpawnOwner, SpawnClient
    <2> QED
        BY <2>1, <2>2, <2>3
<1>4. CASE HelperFails
    <2>1. ControlTypes'
        BY <1>4, ConcludeWindsUp, StoppedWindsUp DEF HelperFails
    <2>2. FlagTypes'
        BY <1>4 DEF HelperFails
    <2>3. ProcessTypes'
        BY <1>4 DEF HelperFails
    <2> QED
        BY <2>1, <2>2, <2>3
<1>5. CASE ClientOver
    BY <1>5 DEF ClientOver
<1>6. CASE Cancelled
    BY <1>6 DEF Cancelled, Terminate
<1>7. CASE BridgeLost
    BY <1>7 DEF BridgeLost, Terminate
<1>8. CASE OwnerLost
    BY <1>8 DEF OwnerLost
<1>9. CASE KillClient
    BY <1>9 DEF KillClient
<1>10. CASE TerminateOver
    BY <1>10 DEF TerminateOver
<1>11. CASE Reap
    <2>1. ControlTypes'
        BY <1>11, ConcludeWindsUp, StoppedWindsUp DEF Reap, finish
    <2>2. FlagTypes'
        BY <1>11 DEF Reap, finish
    <2>3. ProcessTypes'
        BY <1>11 DEF Reap, finish
    <2> QED
        BY <2>1, <2>2, <2>3
<1>12. CASE KillOwner
    BY <1>12 DEF KillOwner
<1>13. CASE Drain
    <2>1. ControlTypes'
        BY <1>13, ConcludeWindsUp, StoppedWindsUp DEF Drain
    <2>2. FlagTypes'
        BY <1>13 DEF Drain
    <2>3. ProcessTypes'
        BY <1>13 DEF Drain
    <2> QED
        BY <2>1, <2>2, <2>3
<1>14. CASE clear_profile
    <2>1. ControlTypes'
        BY <1>14, ConcludeWindsUp, StoppedWindsUp DEF clear_profile, Spawn
    <2>2. FlagTypes'
        BY <1>14 DEF clear_profile, Spawn
    <2>3. ProcessTypes'
        BY <1>14 DEF clear_profile, Spawn
    <2> QED
        BY <2>1, <2>2, <2>3
<1>15. CASE Return
    BY <1>15 DEF Return, Drop, Dropped
<1>16. CASE KillRefused
    <2>1. ControlTypes'
        BY <1>16, ConcludeWindsUp, StoppedWindsUp DEF KillRefused, finish
    <2>2. FlagTypes'
        BY <1>16 DEF KillRefused, finish
    <2>3. ProcessTypes'
        BY <1>16 DEF KillRefused, finish
    <2> QED
        BY <2>1, <2>2, <2>3
<1>17. CASE Abandon
    BY <1>17 DEF Abandon, Drop, Dropped
<1>18. CASE ClientExits
    BY <1>18 DEF ClientExits
<1>19. CASE OwnerExits
    BY <1>19 DEF OwnerExits
<1>20. CASE HelperExits
    BY <1>20 DEF HelperExits
<1>21. CASE Dies
    BY <1>21 DEF Dies
<1>22. CASE BridgeEnds
    BY <1>22 DEF BridgeEnds
<1>23. CASE Signal
    BY <1>23 DEF Signal
<1>24. CASE UNCHANGED vars
    BY <1>24 DEF vars
<1> QED
    BY <1>1, <1>2, <1>3, <1>4, <1>5, <1>6, <1>7, <1>8, <1>9, <1>10, <1>11, <1>12,
       <1>13, <1>14, <1>15, <1>16, <1>17, <1>18, <1>19, <1>20, <1>21, <1>22, <1>23, <1>24
    DEF Next, LauncherStep

\* Every variable keeps to its values, a launch has decided what to return before
\* it can return it, and a result is given exactly once it has returned.
THEOREM LaunchTypes == Spec => []TypeOK
BY LaunchTypeInit, LaunchTypeNext, PTL DEF Spec

-----------------------------------------------------------------------------
(* How far a launch has come tells which processes it may have.             *)

Starting == {"start", "resolve", "absent"}

\* Only Hermes has a gateway, and the launch is certain of any other client
\* until it lets it go.
PlainIsSimple ==
    ~hermes =>
        /\ at \notin Tasks \cup {"drain", "clear"}
        /\ ~staged /\ owner = "none" /\ helper = "none"
        /\ at \notin {"bridge", "returned"} => ~uncertain

\* Nothing can be in doubt before anything is done.
NothingYet ==
    at = "start" => ~retain /\ ~uncertain

\* A client that outlives the wait for it is one whose kill the system refused.
ClientInPlace ==
    /\ at \in {"start"} \cup Tasks => ~Alive(client)
    /\ at \in {"drain", "clear", "bridge"} /\ Alive(client) => uncertain

\* An owner that outlives the drain is one that did not go when it was killed.
OwnerInPlace ==
    /\ at \in Starting \cup {"stage", "clear", "cleanup"} => ~Alive(owner)
    /\ at = "bridge" /\ Alive(owner) => uncertain

\* A helper that outlives its task is one that could not be killed in time.
HelperInPlace ==
    /\ at = "start" => ~Alive(helper)
    /\ at \notin Tasks \cup {"returned"} /\ Alive(helper) => uncertain

\* The configuration is there while something may run on it, and the cleanup
\* starts when nothing is uncertain.
StagedInPlace ==
    /\ at \in Starting => ~staged
    /\ hermes /\ at \in {"stage", "ready", "refresh", "supervise", "terminate"} => staged
    /\ at = "cleanup" /\ helper = "exited" => ~staged
    /\ at = "cleanup" /\ helper # "failed" => ~uncertain

\* The workspace of Hermes is released by a cleanup and nothing else.
WorkspaceInPlace ==
    /\ uncertain => retain
    /\ hermes /\ ~retain => at \in {"start", "bridge", "returned"} /\ ~Using
    /\ workspace = IF at # "returned" THEN "there" ELSE IF retain THEN "kept" ELSE "removed"

\* The bridge is asked to stop at the very end, by a launch that will return a
\* success only when it has seen everything else gone.
EndInPlace ==
    /\ bridge = "stopping" => at = "bridge"
    /\ at = "returned" => bridge # "serving"
    /\ at = "bridge" /\ outcome \in {"exited", "cancelled"} => ~Using /\ ~staged /\ ~uncertain

ProcessesInPlace ==
    PlainIsSimple /\ NothingYet /\ ClientInPlace /\ OwnerInPlace /\ HelperInPlace

FilesInPlace == StagedInPlace /\ WorkspaceInPlace

IInv ==
    /\ ProcessesInPlace /\ FilesInPlace /\ EndInPlace
    /\ UsersAreServed /\ SuccessIsClean

-----------------------------------------------------------------------------
(* Every step keeps the invariant.                                           *)

USE DEF IInv, TypeOK, ProcessesInPlace, FilesInPlace, PlainIsSimple, NothingYet,
    ClientInPlace, OwnerInPlace, HelperInPlace, StagedInPlace, WorkspaceInPlace,
    EndInPlace, UsersAreServed, SuccessIsClean, Using, Starting

LEMMA LaunchInit == Init => IInv
BY LaunchAssumption DEF Init

\* A process that exits or dies takes nothing from another, a bridge is not
\* asked to stop by itself, and a signal is only noted.
LEMMA SurroundingSteps ==
    ASSUME TypeOK, IInv,
           ClientExits \/ OwnerExits \/ HelperExits \/ Dies \/ BridgeEnds \/ Signal
    PROVE  IInv'
<1>1. CASE ClientExits
    BY <1>1 DEF ClientExits
<1>2. CASE OwnerExits
    BY <1>2 DEF OwnerExits
<1>3. CASE HelperExits
    BY <1>3 DEF HelperExits
<1>4. CASE Dies
    BY <1>4 DEF Dies
<1>5. CASE BridgeEnds
    BY <1>5 DEF BridgeEnds
<1>6. CASE Signal
    BY <1>6 DEF Signal
<1> QED
    BY <1>1, <1>2, <1>3, <1>4, <1>5, <1>6

\* The start: helper after helper, then the owner and the client.
LEMMA StartingSteps ==
    ASSUME TypeOK, IInv, Start \/ GiveUpHelper \/ HelperSucceeds \/ HelperFails
    PROVE  IInv'
<1> USE LaunchAssumption
        DEF Conclude, Goto, mark_uncertain, NotStarted, Stopped
<1>1. CASE Start
    <2>1. ProcessesInPlace'
        BY <1>1 DEF Start
    <2>2. FilesInPlace'
        BY <1>1 DEF Start
    <2>3. EndInPlace'
        BY <1>1 DEF Start
    <2>4. UsersAreServed' /\ SuccessIsClean'
        BY <1>1 DEF Start
    <2> QED
        BY <2>1, <2>2, <2>3, <2>4
<1>2. CASE GiveUpHelper
    BY <1>2 DEF GiveUpHelper
<1>3. CASE HelperSucceeds
    <2>1. CASE at = "resolve"
        <3>1. ProcessesInPlace'
            BY <1>3, <2>1 DEF HelperSucceeds, Spawn
        <3>2. FilesInPlace'
            BY <1>3, <2>1 DEF HelperSucceeds, Spawn
        <3>3. EndInPlace'
            BY <1>3, <2>1 DEF HelperSucceeds, Spawn
        <3>4. UsersAreServed' /\ SuccessIsClean'
            BY <1>3, <2>1 DEF HelperSucceeds, Spawn
        <3> QED
            BY <3>1, <3>2, <3>3, <3>4
    <2>2. CASE at = "absent"
        <3>1. ProcessesInPlace'
            BY <1>3, <2>2 DEF HelperSucceeds, Spawn
        <3>2. FilesInPlace'
            BY <1>3, <2>2 DEF HelperSucceeds, Spawn
        <3>3. EndInPlace'
            BY <1>3, <2>2 DEF HelperSucceeds, Spawn
        <3>4. UsersAreServed' /\ SuccessIsClean'
            BY <1>3, <2>2 DEF HelperSucceeds, Spawn
        <3> QED
            BY <3>1, <3>2, <3>3, <3>4
    <2>3. CASE at = "stage"
        <3>1. ProcessesInPlace'
            BY <1>3, <2>3 DEF HelperSucceeds, SpawnOwner, Spawn
        <3>2. FilesInPlace'
            BY <1>3, <2>3 DEF HelperSucceeds, SpawnOwner, Spawn
        <3>3. EndInPlace'
            BY <1>3, <2>3 DEF HelperSucceeds, SpawnOwner, Spawn
        <3>4. UsersAreServed' /\ SuccessIsClean'
            BY <1>3, <2>3 DEF HelperSucceeds, SpawnOwner, Spawn
        <3> QED
            BY <3>1, <3>2, <3>3, <3>4
    <2>4. CASE at = "ready"
        <3>1. ProcessesInPlace'
            BY <1>3, <2>4 DEF HelperSucceeds, Spawn
        <3>2. FilesInPlace'
            BY <1>3, <2>4 DEF HelperSucceeds, Spawn
        <3>3. EndInPlace'
            BY <1>3, <2>4 DEF HelperSucceeds, Spawn
        <3>4. UsersAreServed' /\ SuccessIsClean'
            BY <1>3, <2>4 DEF HelperSucceeds, Spawn
        <3> QED
            BY <3>1, <3>2, <3>3, <3>4
    <2>5. CASE at = "refresh"
        <3>1. ProcessesInPlace'
            BY <1>3, <2>5 DEF HelperSucceeds, SpawnClient
        <3>2. FilesInPlace'
            BY <1>3, <2>5 DEF HelperSucceeds, SpawnClient
        <3>3. EndInPlace'
            BY <1>3, <2>5 DEF HelperSucceeds, SpawnClient
        <3>4. UsersAreServed' /\ SuccessIsClean'
            BY <1>3, <2>5 DEF HelperSucceeds, SpawnClient
        <3> QED
            BY <3>1, <3>2, <3>3, <3>4
    <2>6. CASE at = "cleanup"
        BY <1>3, <2>6 DEF HelperSucceeds
    <2> QED
        BY <1>3, <2>1, <2>2, <2>3, <2>4, <2>5, <2>6 DEF HelperSucceeds
<1>4. CASE HelperFails
    <2>1. ProcessesInPlace'
        BY <1>4 DEF HelperFails
    <2>2. FilesInPlace'
        BY <1>4 DEF HelperFails
    <2>3. EndInPlace'
        BY <1>4 DEF HelperFails
    <2>4. UsersAreServed' /\ SuccessIsClean'
        BY <1>4 DEF HelperFails
    <2> QED
        BY <2>1, <2>2, <2>3, <2>4
<1> QED
    BY <1>1, <1>2, <1>3, <1>4

\* While the client runs, and until it is reaped.
LEMMA SupervisingSteps ==
    ASSUME TypeOK, IInv, \/ ClientOver \/ Cancelled \/ BridgeLost \/ OwnerLost
                 \/ KillClient \/ TerminateOver \/ Reap \/ KillRefused
    PROVE  IInv'
<1> USE LaunchAssumption DEF Terminate, finish, Conclude, Goto, mark_uncertain
<1>1. CASE ClientOver
    BY <1>1 DEF ClientOver
<1>2. CASE Cancelled
    BY <1>2 DEF Cancelled
<1>3. CASE BridgeLost
    BY <1>3 DEF BridgeLost
<1>4. CASE OwnerLost
    BY <1>4 DEF OwnerLost
<1>5. CASE KillClient
    BY <1>5 DEF KillClient
<1>6. CASE TerminateOver
    BY <1>6 DEF TerminateOver
<1>7. CASE Reap
    BY <1>7 DEF Reap
<1>8. CASE KillRefused
    <2>1. ProcessesInPlace'
        BY <1>8 DEF KillRefused
    <2>2. FilesInPlace'
        BY <1>8 DEF KillRefused
    <2>3. EndInPlace'
        BY <1>8 DEF KillRefused
    <2>4. UsersAreServed' /\ SuccessIsClean'
        BY <1>8 DEF KillRefused
    <2> QED
        BY <2>1, <2>2, <2>3, <2>4
<1> QED
    BY <1>1, <1>2, <1>3, <1>4, <1>5, <1>6, <1>7, <1>8

\* The drain, the cleanup and the end.
LEMMA EndingSteps ==
    ASSUME TypeOK, IInv, KillOwner \/ Drain \/ clear_profile \/ Return \/ Abandon
    PROVE  IInv'
<1> USE LaunchAssumption
        DEF Conclude, Goto, mark_uncertain, NotStarted, Stopped, Drop, Dropped
<1>1. CASE KillOwner
    BY <1>1 DEF KillOwner
<1>2. CASE Drain
    <2>1. ProcessesInPlace'
        BY <1>2 DEF Drain
    <2>2. FilesInPlace'
        BY <1>2 DEF Drain
    <2>3. EndInPlace'
        BY <1>2 DEF Drain
    <2>4. UsersAreServed' /\ SuccessIsClean'
        BY <1>2 DEF Drain
    <2> QED
        BY <2>1, <2>2, <2>3, <2>4
<1>3. CASE clear_profile
    <2>1. ProcessesInPlace'
        BY <1>3 DEF clear_profile, Spawn
    <2>2. FilesInPlace'
        BY <1>3 DEF clear_profile, Spawn
    <2>3. EndInPlace'
        BY <1>3 DEF clear_profile, Spawn
    <2>4. UsersAreServed' /\ SuccessIsClean'
        BY <1>3 DEF clear_profile, Spawn
    <2> QED
        BY <2>1, <2>2, <2>3, <2>4
<1>4. CASE Return
    BY <1>4 DEF Return
<1>5. CASE Abandon
    BY <1>5 DEF Abandon
<1> QED
    BY <1>1, <1>2, <1>3, <1>4, <1>5

HIDE DEF IInv

LEMMA LaunchNext == TypeOK /\ IInv /\ [Next]_vars => IInv'
<1> SUFFICES ASSUME TypeOK, IInv, [Next]_vars PROVE IInv'
    OBVIOUS
<1>1. CASE Next
    BY <1>1, SurroundingSteps, StartingSteps, SupervisingSteps, EndingSteps
    DEF Next, LauncherStep
<1>2. CASE UNCHANGED vars
    BY <1>2 DEF vars, IInv
<1> QED
    BY <1>1, <1>2

LEMMA LaunchInvariant == Spec => []IInv
BY LaunchInit, LaunchNext, LaunchTypes, PTL DEF Spec

\* While a client or a gateway lives, the configuration it runs on is there; while
\* anything lives, so are its workspace and its bridge, but for what the launcher
\* could not stop and knows of (supervisor/lifecycle.rs, supervisor/hermes.rs).
THEOREM UsersServed == Spec => []UsersAreServed
<1>1. IInv => UsersAreServed
    BY DEF IInv
<1> QED
    BY <1>1, LaunchInvariant, PTL

\* A launch that returns no error left no process, no configuration and no bridge
\* behind, whatever failed or was signalled on the way.
THEOREM SuccessClean == Spec => []SuccessIsClean
<1>1. IInv => SuccessIsClean
    BY DEF IInv
<1> QED
    BY <1>1, LaunchInvariant, PTL

\* What the launcher was unsure of it says with an error, unless it was dropped,
\* and it leaves the workspace to be looked at (temporary/lifecycle.rs).
UncertainIsKept ==
    uncertain /\ result # NONE => workspace = "kept" /\ result \in {"error", "dropped"}

THEOREM UncertaintyKept == Spec => []UncertainIsKept
<1>1. TypeOK /\ IInv => UncertainIsKept
    BY DEF IInv, UncertainIsKept
<1> QED
    BY <1>1, LaunchTypes, LaunchInvariant, PTL

-----------------------------------------------------------------------------
(* A launch does not go round in circles.                                    *)

\* What is still ahead of a process, of the bridge and of the launcher.
Ahead(process) ==
    CASE process = "running" -> 2 [] process \in {"killed", "exited"} -> 1 [] OTHER -> 0

BridgeAhead == CASE bridge = "serving" -> 2 [] bridge = "stopping" -> 1 [] OTHER -> 0
SignalAhead == IF signalled THEN 0 ELSE 1

\* The places of the launcher, from the last to the first.
Place(place) ==
    CASE place = "bridge" -> 1 [] place = "cleanup" -> 2 [] place = "clear" -> 3
      [] place = "drain" -> 4 [] place = "reap" -> 5 [] place = "terminate" -> 6
      [] place = "supervise" -> 7 [] place = "refresh" -> 8 [] place = "ready" -> 9
      [] place = "stage" -> 10 [] place = "absent" -> 11 [] place = "resolve" -> 12
      [] place = "start" -> 13 [] OTHER -> 0

PlacesAhead == Place(at)

\* A place may start two processes.
StepsAhead ==
    5 * PlacesAhead + Ahead(client) + Ahead(owner) + Ahead(helper) + BridgeAhead + SignalAhead

LEMMA AheadTypes ==
    /\ \A p : Ahead(p) \in 0..2
    /\ BridgeAhead \in 0..2 /\ SignalAhead \in 0..1 /\ PlacesAhead \in 0..13
    /\ BridgeAhead' \in 0..2 /\ SignalAhead' \in 0..1 /\ PlacesAhead' \in 0..13
BY DEF Ahead, BridgeAhead, SignalAhead, PlacesAhead, Place

LEMMA PlaceOrder ==
    /\ Place("returned") = 0 /\ Place("bridge") = 1 /\ Place("cleanup") = 2
    /\ Place("clear") = 3 /\ Place("drain") = 4 /\ Place("reap") = 5
    /\ Place("terminate") = 6 /\ Place("supervise") = 7 /\ Place("refresh") = 8
    /\ Place("ready") = 9 /\ Place("stage") = 10 /\ Place("absent") = 11
    /\ Place("resolve") = 12 /\ Place("start") = 13
BY DEF Place

\* One of the processes is not started anew.
OneRests ==
    \/ Ahead(client') <= Ahead(client)
    \/ Ahead(owner') <= Ahead(owner)
    \/ Ahead(helper') <= Ahead(helper)

\* A step to a later place.
LEMMA PlaceLeft ==
    PlacesAhead' < PlacesAhead /\ OneRests /\ BridgeAhead' <= BridgeAhead /\ UNCHANGED signalled
      => StepsAhead' < StepsAhead
<1> SUFFICES ASSUME PlacesAhead' < PlacesAhead, OneRests, BridgeAhead' <= BridgeAhead,
                    UNCHANGED signalled
             PROVE  StepsAhead' < StepsAhead
    OBVIOUS
<1> DEFINE c == Ahead(client)  cc == Ahead(client')
           o == Ahead(owner)   oo == Ahead(owner')
           h == Ahead(helper)  hh == Ahead(helper')
<1>1. /\ c \in 0..2 /\ cc \in 0..2 /\ o \in 0..2 /\ oo \in 0..2 /\ h \in 0..2 /\ hh \in 0..2
    BY AheadTypes
<1>2. cc <= c \/ oo <= o \/ hh <= h
    BY DEF OneRests
<1>3. SignalAhead' = SignalAhead
    BY DEF SignalAhead
<1>4. /\ StepsAhead = 5 * PlacesAhead + c + o + h + BridgeAhead + SignalAhead
      /\ StepsAhead' = 5 * PlacesAhead' + cc + oo + hh + BridgeAhead' + SignalAhead'
    BY DEF StepsAhead
<1> DEFINE p == PlacesAhead  pp == PlacesAhead'
           b == BridgeAhead  bb == BridgeAhead'
           s == SignalAhead  ss == SignalAhead'
           old == StepsAhead  new == StepsAhead'
<1>5. /\ b \in 0..2 /\ bb \in 0..2 /\ s \in 0..1 /\ ss = s /\ p \in 0..13 /\ pp \in 0..13
      /\ pp < p /\ bb <= b
    BY AheadTypes, <1>3
<1>6. /\ old = 5 * p + c + o + h + b + s /\ new = 5 * pp + cc + oo + hh + bb + ss
    BY <1>4
<1> HIDE DEF c, cc, o, oo, h, hh, p, pp, b, bb, s, ss, old, new
<1>7. cc + oo + hh <= c + o + h + 4
    BY ONLY <1>1, <1>2
<1>8. 5 * pp + 5 <= 5 * p
    BY ONLY <1>5
<1>9. new < old
    BY ONLY <1>1, <1>5, <1>6, <1>7, <1>8
<1> QED
    BY <1>9 DEF new, old

\* A step of the processes, the bridge or the user, with the launcher in its place.
LEMMA PlaceKept ==
    ASSUME UNCHANGED at, Ahead(client') <= Ahead(client), Ahead(owner') <= Ahead(owner),
           Ahead(helper') <= Ahead(helper), BridgeAhead' <= BridgeAhead,
           SignalAhead' <= SignalAhead,
           \/ Ahead(client') < Ahead(client) \/ Ahead(owner') < Ahead(owner)
           \/ Ahead(helper') < Ahead(helper) \/ BridgeAhead' < BridgeAhead
           \/ SignalAhead' < SignalAhead
    PROVE  StepsAhead' < StepsAhead
<1>1. PlacesAhead' = PlacesAhead
    BY DEF PlacesAhead
<1> QED
    BY <1>1, AheadTypes DEF StepsAhead

LEMMA ConcludeRests == \A o : Conclude(o) => at' = "bridge" /\ BridgeAhead' <= BridgeAhead
BY DEF Conclude, BridgeAhead

LEMMA StopsRest ==
    NotStarted \/ Stopped(TRUE) \/ Stopped(FALSE)
      => at' = "bridge" /\ BridgeAhead' <= BridgeAhead
BY ConcludeRests DEF NotStarted, Stopped

LEMMA StaysAhead ==
    /\ UNCHANGED bridge => BridgeAhead' <= BridgeAhead
    /\ UNCHANGED client => Ahead(client') <= Ahead(client)
    /\ UNCHANGED owner => Ahead(owner') <= Ahead(owner)
    /\ UNCHANGED helper => Ahead(helper') <= Ahead(helper)
    /\ UNCHANGED signalled => SignalAhead' <= SignalAhead
BY AheadTypes DEF BridgeAhead, SignalAhead

LEMMA StepIsProgress == TypeOK /\ TypeOK' /\ Next => StepsAhead' < StepsAhead
<1> SUFFICES ASSUME ControlTypes, ControlTypes', FlagTypes, FlagTypes', ProcessTypes,
                    ProcessTypes', Next
             PROVE  StepsAhead' < StepsAhead
    BY TypesInParts
<1> USE DEF launch, files, processes, Goto
<1>1. CASE Start
    <2>1. at = "start" /\ at' \in {"bridge", "resolve", "supervise"}
        BY <1>1, ConcludeRests DEF Start
    <2>2. PlacesAhead' < PlacesAhead
        BY ONLY <2>1, PlaceOrder DEF PlacesAhead
    <2>3. BridgeAhead' <= BridgeAhead
        BY <1>1, ConcludeRests, StaysAhead DEF Start
    <2> QED
        BY <1>1, <2>2, <2>3, PlaceLeft, StaysAhead DEF Start, OneRests
<1>2. CASE GiveUpHelper
    <2>1. Ahead(helper') < Ahead(helper)
        BY <1>2 DEF GiveUpHelper, Ahead
    <2> QED
        BY <1>2, <2>1, PlaceKept, StaysAhead, AheadTypes DEF GiveUpHelper
<1>3. CASE HelperSucceeds
    <2>1. \/ at = "resolve" /\ at' = "absent"
          \/ at = "absent" /\ at' = "stage"
          \/ at = "stage" /\ at' \in {"ready", "bridge"}
          \/ at = "ready" /\ at' = "refresh"
          \/ at = "refresh" /\ at' \in {"supervise", "drain"}
          \/ at = "cleanup" /\ at' = "bridge"
        BY <1>3, StopsRest DEF HelperSucceeds, Spawn, SpawnOwner, SpawnClient
    <2>2. PlacesAhead' < PlacesAhead
        BY ONLY <2>1, PlaceOrder DEF PlacesAhead
    <2>3. BridgeAhead' <= BridgeAhead
        BY <1>3, StopsRest, StaysAhead DEF HelperSucceeds, Spawn, SpawnOwner, SpawnClient
    <2>4. UNCHANGED signalled /\ (UNCHANGED client \/ UNCHANGED owner)
        BY <1>3 DEF HelperSucceeds
    <2> QED
        BY <2>2, <2>3, <2>4, PlaceLeft, StaysAhead DEF OneRests
<1>4. CASE HelperFails
    <2>1. \/ at \in {"resolve", "absent", "cleanup"} /\ at' = "bridge"
          \/ at = "stage" /\ at' = "clear"
          \/ at \in {"ready", "refresh"} /\ at' = "drain"
        BY <1>4, StopsRest DEF HelperFails
    <2>2. PlacesAhead' < PlacesAhead
        BY ONLY <2>1, PlaceOrder DEF PlacesAhead
    <2>3. BridgeAhead' <= BridgeAhead
        BY <1>4, StopsRest, StaysAhead DEF HelperFails
    <2> QED
        BY <1>4, <2>2, <2>3, PlaceLeft, StaysAhead DEF HelperFails, OneRests
<1>5. CASE ClientOver \/ Cancelled \/ BridgeLost \/ OwnerLost \/ TerminateOver
    <2>1. \/ at = "supervise" /\ at' \in {"terminate", "reap"}
          \/ at = "terminate" /\ at' = "reap"
        BY <1>5 DEF ClientOver, Cancelled, BridgeLost, OwnerLost, TerminateOver, Terminate
    <2>2. PlacesAhead' < PlacesAhead
        BY ONLY <2>1, PlaceOrder DEF PlacesAhead
    <2>3. UNCHANGED <<owner, bridge, signalled>>
        BY <1>5 DEF ClientOver, Cancelled, BridgeLost, OwnerLost, TerminateOver, Terminate
    <2> QED
        BY <2>2, <2>3, PlaceLeft, StaysAhead DEF OneRests
<1>6. CASE Reap \/ KillRefused \/ Drain \/ clear_profile
    <2>1. \/ at = "reap" /\ at' \in {"drain", "bridge"}
          \/ at = "terminate" /\ at' = "reap"
          \/ at = "drain" /\ at' \in {"clear", "bridge"}
          \/ at = "clear" /\ at' \in {"cleanup", "bridge"}
        <3>1. CASE Reap
            BY <3>1, ConcludeRests DEF Reap, finish
        <3>2. CASE KillRefused
            BY <3>2, ConcludeRests DEF KillRefused, finish
        <3>3. CASE Drain
            BY <3>3, StopsRest DEF Drain
        <3>4. CASE clear_profile
            BY <3>4, StopsRest DEF clear_profile, Spawn
        <3> QED
            BY <1>6, <3>1, <3>2, <3>3, <3>4
    <2>2. PlacesAhead' < PlacesAhead
        BY ONLY <2>1, PlaceOrder DEF PlacesAhead
    <2>3. BridgeAhead' <= BridgeAhead
        <3>1. CASE Reap
            BY <3>1, ConcludeRests, StaysAhead DEF Reap, finish
        <3>2. CASE KillRefused
            BY <3>2, ConcludeRests, StaysAhead DEF KillRefused, finish
        <3>3. CASE Drain
            BY <3>3, StopsRest, StaysAhead DEF Drain
        <3>4. CASE clear_profile
            BY <3>4, StopsRest, StaysAhead DEF clear_profile, Spawn
        <3> QED
            BY <1>6, <3>1, <3>2, <3>3, <3>4
    <2>4. UNCHANGED <<owner, signalled>>
        BY <1>6 DEF Reap, KillRefused, Drain, clear_profile
    <2> QED
        BY <2>2, <2>3, <2>4, PlaceLeft, StaysAhead DEF OneRests
<1>7. CASE Return \/ Abandon
    <2>1. Drop /\ at # "returned"
        BY <1>7 DEF Return, Abandon
    <2>2. PlacesAhead' < PlacesAhead
        BY <2>1, PlaceOrder DEF Drop, PlacesAhead, ControlTypes, Tasks
    <2>3. BridgeAhead' <= BridgeAhead
        BY <2>1 DEF Drop, BridgeAhead
    <2>4. Ahead(client') <= Ahead(client)
        BY <2>1 DEF Drop, Dropped, Ahead
    <2> QED
        BY <2>1, <2>2, <2>3, <2>4, PlaceLeft DEF Drop, OneRests
<1>8. CASE KillClient \/ KillOwner \/ ClientExits \/ OwnerExits
    <2>1. \/ UNCHANGED owner /\ client = "running" /\ client' \in {"killed", "exited"}
          \/ UNCHANGED client /\ owner = "running"
             /\ owner' \in {"killed", "exited", "left", "failed"}
        BY <1>8 DEF KillClient, KillOwner, ClientExits, OwnerExits
    <2>2. UNCHANGED <<at, helper, bridge, signalled>>
        BY <1>8 DEF KillClient, KillOwner, ClientExits, OwnerExits
    <2>3. \/ UNCHANGED owner /\ Ahead(client') < Ahead(client)
          \/ UNCHANGED client /\ Ahead(owner') < Ahead(owner)
        BY ONLY <2>1 DEF Ahead
    <2> QED
        BY <2>2, <2>3, PlaceKept, StaysAhead, AheadTypes
<1>9. CASE HelperExits
    <2>1. Ahead(helper') < Ahead(helper)
        BY <1>9 DEF HelperExits, Ahead
    <2> QED
        BY <1>9, <2>1, PlaceKept, StaysAhead, AheadTypes DEF HelperExits
<1>10. CASE Dies
    <2>1. \/ Ahead(client') < Ahead(client) /\ UNCHANGED <<owner, helper>>
          \/ Ahead(owner') < Ahead(owner) /\ UNCHANGED <<client, helper>>
          \/ Ahead(helper') < Ahead(helper) /\ UNCHANGED <<client, owner>>
        BY <1>10 DEF Dies, Ahead
    <2> QED
        BY <1>10, <2>1, PlaceKept, StaysAhead, AheadTypes DEF Dies
<1>11. CASE BridgeEnds
    <2>1. BridgeAhead' < BridgeAhead
        BY <1>11 DEF BridgeEnds, BridgeAhead
    <2> QED
        BY <1>11, <2>1, PlaceKept, StaysAhead, AheadTypes DEF BridgeEnds
<1>12. CASE Signal
    <2>1. SignalAhead' < SignalAhead
        BY <1>12 DEF Signal, SignalAhead, FlagTypes
    <2> QED
        BY <1>12, <2>1, PlaceKept, StaysAhead, AheadTypes DEF Signal
<1> QED
    BY <1>1, <1>2, <1>3, <1>4, <1>5, <1>6, <1>7, <1>8, <1>9, <1>10, <1>11, <1>12
    DEF Next, LauncherStep

\* Nothing a launch, its processes or its user do can be done again for ever: each
\* step uses up one of finitely many, so a launch ends unless everybody stops.
THEOREM LaunchDoesNotCircle == Spec => [][StepsAhead' < StepsAhead /\ StepsAhead \in Nat]_vars
<1>1. StepsAhead \in Nat
    BY AheadTypes DEF StepsAhead
<1> QED
    BY <1>1, StepIsProgress, LaunchTypes, PTL DEF Spec

=============================================================================
