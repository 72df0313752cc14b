---------------------------- MODULE DaemonProofs ----------------------------
(***************************************************************************)
(* The safety properties of CoordinatorDaemon for any number of daemons,   *)
(* clients and failures.                                                   *)
(***************************************************************************)
EXTENDS CoordinatorDaemon, TLAPS

(* The inductive invariant: besides the types, what a client knows of the  *)
(* daemon it is bound to, and that only a daemon that serves, or one whose *)
(* accept failed, has handlers running.                                    *)

AddressKnown ==
    \A c \in Clients :
        client[c] \in {"addressed", "connected", "accepted"} => address[c] \in Daemons

HandlersAccountedFor ==
    \A c \in Clients : client[c] = "accepted" =>
        \/ proc[address[c]] \in {"none", "serving"}
        \/ /\ proc[address[c]] \in {"stopping", "checked", "unlocking", "exiting"}
           /\ address[c] \in broken

IInv == TypeOK /\ ServingIsPublished /\ AddressKnown /\ HandlersAccountedFor

USE DaemonAssumption

-----------------------------------------------------------------------------
\* Nothing runs at first.
LEMMA InitInv == Init => IInv
BY DEF Init, IInv, TypeOK, Elected, ServingIsPublished, AddressKnown, HandlersAccountedFor

\* A step of one daemon process, its end included, keeps the types and leaves
\* process.lock with the elected daemon.
LEMMA ProcessTypes ==
    ASSUME TypeOK, NEW d \in Daemons,
           \/ Runs(d) \/ StartFails(d) \/ IdleTimePasses(d) \/ IdleExit(d)
           \/ AcceptFails(d) \/ Die(d)
    PROVE  TypeOK'
BY DEF TypeOK, Elected, Runs, acquire_process_lock, Bind, RemoveOldReceipt, PublishReceipt,
       CheckOwnReceipt, RemoveReceipt, Unlock, Exit, StartFails, IdleTimePasses, IdleExit,
       AcceptFails, Die, Becomes, clients

\* A step of one client keeps the types: it starts processes and elects none.
LEMMA ClientTypes ==
    ASSUME TypeOK, NEW c \in Clients, Proceeds(c)
    PROVE  TypeOK'
<1> USE DEF TypeOK, At, processes
<1>1. CASE Ask(c)
  BY <1>1 DEF Ask, Elected
<1>2. CASE read_receipt(c)
  BY <1>2 DEF read_receipt, Elected
<1>3. CASE Connect(c) \/ ReportIncompatible(c) \/ LookAgain(c) \/ GiveUp(c) \/ Disconnected(c)
  BY <1>3 DEF Connect, ReportIncompatible, LookAgain, GiveUp, Disconnected, Elected
<1>4. CASE spawn_daemon(c)
  BY <1>4 DEF spawn_daemon, Elected, Forgotten, Becomes
<1>5. CASE Accept(c)
  BY <1>5 DEF Accept, Elected
<1>6. CASE HandlerEnds(c)
  BY <1>6 DEF HandlerEnds, Elected
<1>7. QED
  BY <1>1, <1>2, <1>3, <1>4, <1>5, <1>6 DEF Proceeds

\* Only the elected daemon touches the receipt, so nobody takes away the
\* receipt of the one that serves.
LEMMA PublishedStep ==
    ASSUME IInv, Next
    PROVE  ServingIsPublished'
<1> USE DEF IInv, TypeOK, ServingIsPublished, Elected
<1>1. CASE \E d \in Daemons : Runs(d)
  <2>1. PICK d \in Daemons : Runs(d)
    BY <1>1
  <2>2. CASE acquire_process_lock(d) \/ Bind(d) \/ CheckOwnReceipt(d) \/ Unlock(d) \/ Exit(d)
    BY <2>2 DEF acquire_process_lock, Bind, CheckOwnReceipt, Unlock, Exit, Becomes
  <2>3. CASE RemoveOldReceipt(d) \/ RemoveReceipt(d) \/ PublishReceipt(d)
    BY <2>3 DEF RemoveOldReceipt, RemoveReceipt, PublishReceipt, Becomes
  <2>4. QED
    BY <2>1, <2>2, <2>3 DEF Runs
<1>2. CASE \E d \in Daemons :
             StartFails(d) \/ IdleTimePasses(d) \/ IdleExit(d) \/ AcceptFails(d) \/ Die(d)
  BY <1>2 DEF StartFails, IdleTimePasses, IdleExit, AcceptFails, Die, Becomes
<1>3. CASE \E c \in Clients : Proceeds(c)
  BY <1>3 DEF Proceeds, Ask, read_receipt, Connect, ReportIncompatible, spawn_daemon, LookAgain,
              GiveUp, Accept, HandlerEnds, Disconnected, processes, Becomes
<1>4. QED
  BY <1>1, <1>2, <1>3 DEF Next

\* A client is bound to a daemon only by a receipt it has read.
LEMMA AddressStep ==
    ASSUME IInv, Next
    PROVE  AddressKnown'
<1> USE DEF IInv, TypeOK, AddressKnown
<1>1. CASE \E d \in Daemons :
             Runs(d) \/ StartFails(d) \/ IdleTimePasses(d) \/ IdleExit(d) \/ AcceptFails(d) \/ Die(d)
  BY <1>1 DEF Runs, acquire_process_lock, Bind, RemoveOldReceipt, PublishReceipt, CheckOwnReceipt,
              RemoveReceipt, Unlock, Exit, StartFails, IdleTimePasses, IdleExit, AcceptFails, Die,
              clients
<1>2. CASE \E c \in Clients : Proceeds(c)
  BY <1>2 DEF Proceeds, Ask, read_receipt, Connect, ReportIncompatible, spawn_daemon, LookAgain,
              GiveUp, Accept, HandlerEnds, Disconnected, At
<1>3. QED
  BY <1>1, <1>2 DEF Next

\* A daemon with handlers leaves serve only over a failing accept.
LEMMA HandlersStep ==
    ASSUME IInv, Next
    PROVE  HandlersAccountedFor'
<1> USE DEF IInv, TypeOK, AddressKnown, HandlersAccountedFor
<1>1. CASE \E d \in Daemons : Runs(d)
  <2>1. PICK d \in Daemons : Runs(d)
    BY <1>1
  <2>2. CASE acquire_process_lock(d) \/ Bind(d) \/ RemoveOldReceipt(d) \/ PublishReceipt(d)
    BY <2>2 DEF acquire_process_lock, Bind, RemoveOldReceipt, PublishReceipt, Becomes, clients
  <2>3. CASE CheckOwnReceipt(d) \/ RemoveReceipt(d) \/ Unlock(d) \/ Exit(d)
    BY <2>3 DEF CheckOwnReceipt, RemoveReceipt, Unlock, Exit, Becomes, clients
  <2>4. QED
    BY <2>1, <2>2, <2>3 DEF Runs
<1>2. CASE \E d \in Daemons : StartFails(d) \/ IdleTimePasses(d) \/ AcceptFails(d) \/ Die(d)
  BY <1>2 DEF StartFails, IdleTimePasses, AcceptFails, Die, Becomes, clients
<1>3. CASE \E d \in Daemons : IdleExit(d)
  BY <1>3 DEF IdleExit, AcceptedBy, Becomes, clients
<1>4. CASE \E c \in Clients : spawn_daemon(c)
  <2>1. PICK c \in Clients : spawn_daemon(c)
    BY <1>4
  <2>2. client[c] # "accepted" /\ client'[c] = "probing"
    BY <2>1 DEF spawn_daemon, Misses, At
  <2>3. QED
    BY <2>1, <2>2 DEF spawn_daemon, Forgotten, At, Becomes
<1>5. CASE \E c \in Clients : Accept(c) \/ HandlerEnds(c)
  BY <1>5 DEF Accept, HandlerEnds
<1>6. CASE \E c \in Clients :
             Ask(c) \/ read_receipt(c) \/ Connect(c) \/ ReportIncompatible(c) \/ LookAgain(c)
                \/ GiveUp(c) \/ Disconnected(c)
  BY <1>6 DEF Ask, read_receipt, Connect, ReportIncompatible, LookAgain, GiveUp, Disconnected,
              At, processes
<1>7. QED
  BY <1>1, <1>2, <1>3, <1>4, <1>5, <1>6 DEF Next, Proceeds

\* The invariant holds in every reachable state.
LEMMA Invariance == Spec => []IInv
<1>1. IInv /\ [Next]_vars => IInv'
  <2> SUFFICES ASSUME IInv, [Next]_vars PROVE IInv'
    OBVIOUS
  <2>1. CASE Next
    <3>1. TypeOK'
      BY <2>1, ProcessTypes, ClientTypes DEF IInv, Next
    <3>2. QED
      BY <2>1, <3>1, PublishedStep, AddressStep, HandlersStep DEF IInv
  <2>2. CASE UNCHANGED vars
    BY <2>2 DEF vars, processes, clients, IInv, TypeOK, Elected, ServingIsPublished,
                AddressKnown, HandlersAccountedFor
  <2>3. QED
    BY <2>1, <2>2
<1>2. QED
  BY <1>1, InitInv, PTL DEF Spec

-----------------------------------------------------------------------------
\* process.lock has one holder, the elected daemon, whatever fails or dies.
THEOREM OneHolderOfTheLock == Spec => []TypeOK
BY Invariance, PTL DEF IInv

\* The daemon that serves can always be found by its receipt
\* (write_receipt, remove_own_receipt and the lock around both).
THEOREM ServingDaemonIsPublished == Spec => []ServingIsPublished
BY Invariance, PTL DEF IInv

\* Two processes handle requests at the same time only while one of them goes
\* down over a failing accept (run_daemon, serve).
THEOREM OneProcessKeepsTheWindows == Spec => []OneCapacityAuthority
<1>1. IInv => OneCapacityAuthority
  <2> SUFFICES ASSUME IInv,
                      NEW d1 \in Handling, NEW d2 \in Handling, d1 \notin broken, d2 \notin broken
               PROVE  d1 = d2
    BY DEF OneCapacityAuthority
  <2>1. /\ d1 \in Daemons /\ proc[d1] = "serving"
        /\ d2 \in Daemons /\ proc[d2] = "serving"
    BY DEF IInv, AddressKnown, HandlersAccountedFor, Handling
  <2>2. d1 \in Elected /\ d2 \in Elected
    BY <2>1 DEF Elected
  <2>3. QED
    BY <2>2 DEF IInv, TypeOK
<1>2. QED
  BY <1>1, Invariance, PTL

=============================================================================
