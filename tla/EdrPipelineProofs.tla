------------------------- MODULE EdrPipelineProofs -------------------------
(***************************************************************************)
(* Theorems about EdrPipeline for every number of CPUs and runs and every  *)
(* size of the agent's receive buffer.                                     *)
(***************************************************************************)
EXTENDS EdrPipeline, FiniteSetTheorems, TLAPS

-----------------------------------------------------------------------------
(* Types, as far as they need no counting.                                 *)

CpuStates == {Idle} \cup {At(k, p) : k \in Probes, p \in {"path", "send"}}

KernelTyped ==
    /\ mod \in Mods /\ nlSock \in BOOLEAN /\ armed \in SUBSET Probes
    /\ loads \in 0..MaxLoads
HooksTyped ==
    /\ cpu \in [Cpus -> CpuStates]
    /\ pages \in Int /\ acts \in 0..MaxActs
AgentTyped ==
    /\ queue \in Seq(Nat) /\ Len(queue) <= QueueMax
    /\ congested \in BOOLEAN /\ err \in BOOLEAN
    /\ agent \in {"off", "socket", "bind", "test", "recv", "print", "close"}
    /\ running \in BOOLEAN
    /\ cur \in Nat /\ sent \in Nat /\ printed \in Seq(Nat) /\ reports \in Nat
    /\ runs \in 0..MaxRuns
Typed == KernelTyped /\ HooksTyped /\ AgentTyped

LEMMA CpuStatesFacts ==
    /\ Idle \in CpuStates
    /\ \A k \in Probes : At(k, "path") \in CpuStates /\ At(k, "send") \in CpuStates
    /\ \A s \in CpuStates : s = Idle <=> s.probe = "none"
    /\ \A s \in CpuStates : s = Idle \/ s.probe \in Probes
    /\ \A s \in CpuStates : s.at = "path" \/ s.at = "send" \/ s = Idle
    /\ \A s \in CpuStates : s.at \in {"path", "send"} => s # Idle
    /\ At("file", "path").probe = "file" /\ At("file", "send").probe = "file"
    /\ At("file", "path") # Idle /\ At("file", "send") # At("file", "path")
    /\ Idle.at = "idle"
BY DEF CpuStates, Idle, At, Probes

LEMMA BoundsFacts ==
    /\ QueueMax \in Nat /\ QueueMax > 0
    /\ 0 \in 0..MaxActs /\ 0 \in 0..MaxRuns /\ 0 \in 0..MaxLoads
BY EdrAssumption

LEMMA EmptyQueue == <<>> \in Seq(Nat) /\ Len(<<>>) = 0 /\ Len(<<>>) <= QueueMax
BY BoundsFacts

LEMMA TypedInit == Init => Typed
<1> SUFFICES ASSUME Init PROVE Typed
  OBVIOUS
<1>1. HooksTyped
  BY CpuStatesFacts, BoundsFacts DEF Init, HooksTyped
<1>2. AgentTyped
  BY BoundsFacts, EmptyQueue DEF Init, AgentTyped
<1>3. KernelTyped
  BY BoundsFacts DEF Init, KernelTyped, Mods
<1> QED
  BY <1>1, <1>2, <1>3 DEF Typed

LEMMA TypedStep == Typed /\ [Next]_vars => Typed'
<1> SUFFICES ASSUME Typed, [Next]_vars PROVE Typed'
  OBVIOUS
<1> USE EdrAssumption, BoundsFacts
<1>1. ASSUME CreateSocket \/ Unload \/ Module PROVE Typed'
  <2>1. KernelTyped'
    <3>1. CASE CreateSocket
      BY <3>1 DEF Typed, KernelTyped, CreateSocket, Goto, Mods
    <3>2. CASE Unload \/ Unregister \/ ReleaseSocket
      BY <3>2 DEF Typed, KernelTyped, Unload, Unregister, ReleaseSocket, Disarm,
         Synchronize, Goto, Mods
    <3>3. CASE Register
      BY <3>3 DEF Typed, KernelTyped, Register, RegisterKprobe, Goto, Mods, Probes
    <3> QED
      BY <1>1, <3>1, <3>2, <3>3 DEF Module
  <2>2. UNCHANGED <<hooks, socket, main, sent, reports>>
    BY <1>1 DEF CreateSocket, Unload, Module, Register, Unregister,
       ReleaseSocket, RegisterKprobe, Disarm, Synchronize
  <2> QED
    BY <2>1, <2>2 DEF Typed, HooksTyped, AgentTyped, hooks, socket, main
<1>2. ASSUME NEW c \in Cpus, NEW k \in Probes, NEW task, Enter(c, k, task) PROVE Typed'
  <2>1. cpu' \in [Cpus -> CpuStates]
    BY <1>2, CpuStatesFacts DEF Typed, HooksTyped, Enter
  <2>2. pages' \in Int /\ acts' \in 0..MaxActs
    <3>1. task = "app" => acts < MaxActs
      BY <1>2 DEF Enter, Acting
    <3> QED
      BY <1>2, <3>1 DEF Typed, HooksTyped, Enter
  <2> QED
    BY <1>2, <2>1, <2>2 DEF Typed, KernelTyped, HooksTyped, AgentTyped, Enter,
       kernel, socket, main
<1>3. ASSUME NEW c \in Cpus, FilePath(c) PROVE Typed'
  <2>1. cpu' \in [Cpus -> CpuStates]
    BY <1>3, CpuStatesFacts DEF Typed, HooksTyped, FilePath, Probes
  <2> QED
    BY <1>3, <2>1 DEF Typed, KernelTyped, HooksTyped, AgentTyped, FilePath,
       kernel, socket, main
<1>4. ASSUME NEW c \in Cpus, send_event(c) PROVE Typed'
  <2>1. cpu' \in [Cpus -> CpuStates]
    BY <1>4, CpuStatesFacts DEF Typed, HooksTyped, send_event
  <2>2. reports' \in Nat /\ sent' \in Nat
    BY <1>4 DEF Typed, AgentTyped, send_event, Broadcast
  <2>3. /\ queue' \in Seq(Nat) /\ Len(queue') <= QueueMax
        /\ congested' \in BOOLEAN /\ err' \in BOOLEAN
    <3>1. CASE UNCHANGED queue
      BY <1>4, <3>1 DEF Typed, AgentTyped, send_event, Broadcast, socket
    <3>2. CASE ~UNCHANGED queue
      <4>1. queue' = Append(queue, sent') /\ Len(queue) # QueueMax
        BY <1>4, <3>2 DEF send_event, Broadcast, socket
      <4>2. UNCHANGED <<congested, err>>
        BY <1>4, <3>2 DEF send_event, Broadcast, socket
      <4>3. queue' \in Seq(Nat) /\ Len(queue') = Len(queue) + 1
        BY <2>2, <4>1 DEF Typed, AgentTyped
      <4> QED
        BY <4>1, <4>2, <4>3 DEF Typed, AgentTyped
    <3> QED
      BY <3>1, <3>2
  <2> QED
    BY <1>4, <2>1, <2>2, <2>3 DEF Typed, KernelTyped, HooksTyped, AgentTyped,
       send_event, kernel, main
<1>5. ASSUME Start \/ signal_handler \/ Agent PROVE Typed'
  <2>1. UNCHANGED <<kernel, hooks>>
    BY <1>5 DEF Start, signal_handler, Agent, Socket, Bind, Test, Receive,
       Recv, print_event, Close
  <2>2. AgentTyped'
    <3>1. CASE Start
      BY <3>1, EmptyQueue DEF Typed, AgentTyped, Start, Step, socket
    <3>2. CASE signal_handler \/ Socket \/ Test
      BY <3>2 DEF Typed, AgentTyped, signal_handler, Socket, Test, Step, socket
    <3>3. CASE Bind \/ Close
      BY <3>3, EmptyQueue DEF Typed, AgentTyped, Bind, Close, Step
    <3>4. CASE Receive
      <4>1. CASE err
        BY <3>4, <4>1 DEF Typed, AgentTyped, Receive, Recv, Step
      <4>2. CASE ~err
        <5>1. queue # <<>> /\ cur' = Head(queue) /\ queue' = Tail(queue)
          BY <3>4, <4>2 DEF Receive, Recv
        <5>2. cur' \in Nat /\ queue' \in Seq(Nat) /\ Len(queue') <= QueueMax
          BY <5>1 DEF Typed, AgentTyped
        <5>3. congested' \in BOOLEAN
          BY <3>4, <4>2 DEF Typed, AgentTyped, Receive, Recv
        <5> QED
          BY <3>4, <4>2, <5>2, <5>3 DEF Typed, AgentTyped, Receive, Recv, Step
      <4> QED
        BY <4>1, <4>2
    <3>5. CASE print_event
      BY <3>5 DEF Typed, AgentTyped, print_event, Step, socket
    <3> QED
      BY <1>5, <3>1, <3>2, <3>3, <3>4, <3>5 DEF Agent
  <2> QED
    BY <2>1, <2>2 DEF Typed, KernelTyped, HooksTyped, kernel, hooks
<1>6. CASE UNCHANGED vars
  BY <1>6 DEF Typed, KernelTyped, HooksTyped, AgentTyped, vars, kernel, hooks,
     socket, main
<1> QED
  BY <1>1, <1>2, <1>3, <1>4, <1>5, <1>6 DEF Next, Handler

-----------------------------------------------------------------------------
(* Loading and unloading against running handlers.                         *)

\* Nobody is inside the handler of k and nobody can enter it.
Gone(k) == k \notin armed /\ \A c \in Cpus : cpu[c].probe # k

LoadInv ==
    /\ nlSock <=> mod # "out"
    /\ mod \in {"out", "init_exec", "exit_file", "exit_connect", "release"} => Gone("exec")
    /\ mod \in {"out", "init_exec", "init_file", "exit_connect", "release"} => Gone("file")
    /\ mod \in {"out", "init_exec", "init_file", "init_connect", "release"} => Gone("connect")

LEMMA LoadInit == Init => LoadInv
BY DEF Init, LoadInv, Gone, Idle

\* A probe that nobody is in stays so until it is registered.
LEMMA GoneStep ==
    ASSUME Typed, NEW k \in Probes, Gone(k), [Next]_vars, k \notin armed'
    PROVE  Gone(k)'
<1>1. ASSUME UNCHANGED cpu PROVE Gone(k)'
  BY <1>1 DEF Gone
<1>2. ASSUME NEW c \in Cpus, NEW j \in Probes, NEW task, Enter(c, j, task) PROVE Gone(k)'
  <2>1. j # k
    BY <1>2 DEF Gone, Enter
  <2>2. cpu' = [cpu EXCEPT ![c] = cpu'[c]] /\ cpu'[c].probe = j
    BY <1>2 DEF Enter, At, Typed, HooksTyped
  <2> QED
    BY <2>1, <2>2 DEF Gone, Typed, HooksTyped
<1>3. ASSUME NEW c \in Cpus, Handler(c) PROVE Gone(k)'
  <2>1. cpu' = [cpu EXCEPT ![c] = cpu'[c]]
    BY <1>3 DEF Handler, FilePath, send_event, Typed, HooksTyped
  <2>2. cpu'[c].probe \in {"none", cpu[c].probe}
    BY <1>3, CpuStatesFacts DEF Handler, FilePath, send_event, Typed, HooksTyped, Idle
  <2> QED
    BY <2>1, <2>2 DEF Gone, Typed, HooksTyped, Probes
<1>4. ASSUME CreateSocket \/ Unload \/ Module \/ Start \/ signal_handler \/ Agent
      PROVE UNCHANGED cpu
  BY <1>4 DEF CreateSocket, Unload, Module, Register, RegisterKprobe, Unregister,
     Disarm, Synchronize, ReleaseSocket, Start, signal_handler, Agent, Socket,
     Bind, Test, Receive, Recv, print_event, Close, hooks
<1>5. UNCHANGED vars => UNCHANGED cpu
  BY DEF vars, hooks
<1> QED
  BY <1>1, <1>2, <1>3, <1>4, <1>5 DEF Next

LEMMA LoadStep == Typed /\ LoadInv /\ [Next]_vars => LoadInv'
<1> SUFFICES ASSUME Typed, LoadInv, [Next]_vars PROVE LoadInv'
  OBVIOUS
<1> USE DEF Probes
<1>1. CASE UNCHANGED <<mod, nlSock, armed>>
  <2>1. \A k \in Probes : Gone(k) => Gone(k)'
    <3> SUFFICES ASSUME NEW k \in Probes, Gone(k) PROVE Gone(k)'
      OBVIOUS
    <3>1. k \notin armed'
      BY <1>1 DEF Gone
    <3> QED
      BY <3>1, GoneStep
  <2> QED
    BY <1>1, <2>1 DEF LoadInv
<1>2. ASSUME CreateSocket \/ Unload \/ ReleaseSocket PROVE LoadInv'
  <2>1. \A k \in Probes : Gone(k) => Gone(k)'
    BY <1>2 DEF CreateSocket, Unload, ReleaseSocket, Gone, hooks
  <2> QED
    BY <1>2, <2>1 DEF LoadInv, CreateSocket, Unload, ReleaseSocket, Goto
<1>3. ASSUME Register PROVE LoadInv'
  <2>1. \A j, k \in Probes : \A from, to :
          RegisterKprobe(j, from, to) /\ j # k /\ Gone(k) => Gone(k)'
    BY DEF RegisterKprobe, Gone, hooks
  <2> QED
    BY <1>3, <2>1 DEF LoadInv, Register, RegisterKprobe, Goto
<1>4. ASSUME Unregister PROVE LoadInv'
  <2>1. UNCHANGED <<cpu, nlSock>> /\ armed' \subseteq armed
    BY <1>4 DEF Unregister, Disarm, Synchronize, hooks
  <2>2. \A k \in Probes : Gone(k) => Gone(k)'
    BY <2>1 DEF Gone
  <2>3. \A k \in Probes : \A from, to : Synchronize(k, from, to) => Gone(k)'
    BY DEF Synchronize, Gone, hooks
  <2> QED
    BY <1>4, <2>1, <2>2, <2>3 DEF LoadInv, Unregister, Disarm, Synchronize, Goto
<1>5. ASSUME (\E c \in Cpus : Handler(c)) \/ Start \/ signal_handler \/ Agent
      PROVE UNCHANGED <<mod, nlSock, armed>>
  BY <1>5 DEF Handler, FilePath, send_event, Start, signal_handler, Agent, Socket,
     Bind, Test, Receive, Recv, print_event, Close, kernel
<1>6. ASSUME NEW c \in Cpus, NEW k \in Probes, NEW task, Enter(c, k, task)
      PROVE UNCHANGED <<mod, nlSock, armed>>
  BY <1>6 DEF Enter, kernel
<1>7. UNCHANGED vars => UNCHANGED <<mod, nlSock, armed>>
  BY DEF vars, kernel
<1> QED
  BY <1>1, <1>2, <1>3, <1>4, <1>5, <1>6, <1>7 DEF Next, Module

\* No handler runs, and none can start, without the netlink socket, however
\* loading and unloading interleave with the handlers of any number of CPUs.
THEOREM HandlersNeverOutliveSocket == Spec => []HandlersHaveSocket
<1>1. Typed /\ LoadInv => HandlersHaveSocket
  <2> SUFFICES ASSUME Typed, LoadInv, ~nlSock PROVE armed = {} /\ \A c \in Cpus : cpu[c] = Idle
    BY DEF HandlersHaveSocket
  <2>1. \A k \in Probes : Gone(k)
    BY DEF LoadInv, Probes
  <2>2. armed = {}
    BY <2>1 DEF Gone, Typed, KernelTyped
  <2>3. \A c \in Cpus : cpu[c] \in CpuStates /\ cpu[c].probe \notin Probes
    BY <2>1 DEF Gone, Typed, HooksTyped
  <2> QED
    BY <2>2, <2>3, CpuStatesFacts
<1> QED
  BY <1>1, TypedInit, TypedStep, LoadInit, LoadStep, PTL DEF Spec

-----------------------------------------------------------------------------
(* What the agent prints.                                                  *)

\* The event between the queue and the output.
Held == IF agent = "print" THEN 1 ELSE 0

\* Printed, held and queued events are consecutive from 1 on.  They are all
\* the events broadcast unless the socket is congested, and then an error is
\* pending or has ended the loop.
Consecutive ==
    /\ \A i \in 1..Len(printed) : printed[i] = i
    /\ agent = "print" => cur = Len(printed) + 1
    /\ \A i \in 1..Len(queue) : queue[i] = Len(printed) + Held + i
Complete ==
    /\ Len(printed) + Held + Len(queue) <= sent \/ ~HasSocket
    /\ Member /\ ~congested => Len(printed) + Held + Len(queue) = sent
Unread ==
    /\ agent \in {"off", "socket"} => queue = <<>>
    /\ agent \in {"socket", "bind"} => printed = <<>> /\ sent = 0 /\ queue = <<>>
    /\ congested /\ agent \in {"test", "recv", "print"} => err
FeedInv == Consecutive /\ Complete /\ Unread

\* Whatever the lengths of its fields, an event fits into the line buffer.
LEMMA LinesFit ==
    ASSUME NEW k \in Probes, NEW head \in HeadLens(k), NEW tail \in TailLens(k)
    PROVE  format_event(head, tail, BufLen) > 0
<1>1. head \in 51..(93 + EDR_COMM_LEN)
  BY DEF Probes, HeadLens, TypeLen, EDR_COMM_LEN
<1>2. tail \in 9..(23 + EDR_PATH_LEN)
  BY DEF Probes, TailLens, EDR_PATH_LEN
<1> QED
  BY <1>1, <1>2 DEF format_event, BufLen, EDR_COMM_LEN, EDR_PATH_LEN

LEMMA FeedInit == Init => FeedInv
BY DEF Init, FeedInv, Consecutive, Complete, Unread, Member, HasSocket

LEMMA FeedStep == Typed /\ FeedInv /\ [Next]_vars => FeedInv'
<1> SUFFICES ASSUME Typed, FeedInv, [Next]_vars PROVE FeedInv'
  OBVIOUS
<1> USE DEF FeedInv, Held, Member, HasSocket
<1>0. Len(printed) \in Nat /\ Len(queue) \in Nat /\ sent \in Nat /\ Held \in Nat
  BY DEF Typed, AgentTyped
<1>1. CASE UNCHANGED <<queue, congested, err, agent, cur, printed, sent>>
  BY <1>1 DEF Consecutive, Complete, Unread
<1>2. ASSUME NEW c \in Cpus, send_event(c) PROVE FeedInv'
  <2>1. UNCHANGED <<agent, cur, printed>>
    BY <1>2 DEF send_event, main
  <2>2. CASE UNCHANGED <<socket, sent>>
    BY <2>1, <2>2 DEF Consecutive, Complete, Unread, socket
  <2>3. CASE Broadcast /\ Member /\ (congested \/ Len(queue) = QueueMax)
    <3>1. congested' /\ err' = (err \/ ~congested) /\ queue' = queue /\ sent' = sent + 1
      BY <2>3 DEF Broadcast
    <3>2. Held' = Held
      BY <2>1
    <3>3. Consecutive' /\ Unread'
      BY <2>1, <2>3, <3>1 DEF Consecutive, Unread
    <3>4. Complete'
      BY <1>0, <2>1, <3>1, <3>2 DEF Complete
    <3> QED
      BY <3>3, <3>4
  <2>4. CASE Broadcast /\ Member /\ ~(congested \/ Len(queue) = QueueMax)
    <3>1. queue' = Append(queue, sent + 1) /\ sent' = sent + 1 /\ UNCHANGED <<congested, err>>
      BY <2>4 DEF Broadcast
    <3>2. /\ Len(queue') = Len(queue) + 1 /\ queue'[Len(queue) + 1] = sent + 1
          /\ \A i \in 1..Len(queue) : queue'[i] = queue[i]
      BY <3>1 DEF Typed, AgentTyped
    <3>3. Len(printed) + Held + Len(queue) = sent
      BY <2>4 DEF Complete
    <3>4. Held' = Held /\ printed' = printed
      BY <2>1
    <3>5. Consecutive'
      <4> HIDE DEF Held
      <4>1. \A i \in 1..Len(queue') : queue'[i] = Len(printed) + Held + i
        <5> SUFFICES ASSUME NEW i \in 1..Len(queue') PROVE queue'[i] = Len(printed) + Held + i
          OBVIOUS
        <5>1. CASE i \in 1..Len(queue)
          BY <3>2, <5>1 DEF Consecutive
        <5>2. CASE i = Len(queue) + 1
          BY <1>0, <3>2, <3>3, <5>2
        <5> QED
          BY <1>0, <3>2, <5>1, <5>2
      <4> QED
        BY <2>1, <3>4, <4>1 DEF Consecutive
    <3>6. Complete'
      <4> HIDE DEF Held
      <4> QED
        BY <1>0, <2>1, <3>1, <3>2, <3>3, <3>4 DEF Complete
    <3>7. Unread'
      BY <2>1, <2>4, <3>1 DEF Unread
    <3> QED
      BY <3>5, <3>6, <3>7
  <2> QED
    BY <1>2, <2>2, <2>3, <2>4 DEF send_event, Broadcast
<1>3. CASE Start
  <2>1. queue' = <<>> /\ printed' = <<>> /\ sent' = 0 /\ agent' = "socket"
    BY <1>3 DEF Start, Step, Unread, socket
  <2> QED
    BY <2>1 DEF Consecutive, Complete, Unread
<1>4. CASE Socket \/ Test
  <2>1. UNCHANGED <<queue, congested, err, cur, printed, sent>>
    BY <1>4 DEF Socket, Test, socket
  <2>2. \/ agent = "socket" /\ agent' \in {"bind", "off"}
        \/ agent = "test" /\ agent' \in {"recv", "close"}
    BY <1>4 DEF Socket, Test, Step
  <2> QED
    BY <2>1, <2>2, <1>0 DEF Consecutive, Complete, Unread
<1>5. CASE Bind
  <2>1. printed' = <<>> /\ queue' = <<>> /\ sent' = 0 /\ ~congested' /\ agent' \in {"test", "off"}
    BY <1>5 DEF Bind, Step, Unread
  <2> QED
    BY <2>1 DEF Consecutive, Complete, Unread
<1>6. CASE Close
  <2>1. queue' = <<>> /\ agent = "close" /\ agent' = "off" /\ ~congested' /\ printed' = printed
    BY <1>6 DEF Close, Step
  <2> QED
    BY <2>1 DEF Consecutive, Complete, Unread
<1>7. CASE Receive /\ err
  BY <1>7 DEF Receive, Recv, Step, Consecutive, Complete, Unread
<1>8. CASE Receive /\ ~err
  <2>1. /\ agent = "recv" /\ agent' = "print" /\ queue # <<>>
        /\ cur' = Head(queue) /\ queue' = Tail(queue)
        /\ UNCHANGED <<printed, sent, err>>
    BY <1>8 DEF Receive, Recv, Step
  <2>2. ~congested /\ ~congested'
    BY <1>8, <2>1 DEF Receive, Recv, Unread, Typed, AgentTyped
  <2>3. /\ Len(queue) \in Nat /\ Len(queue) > 0 /\ Len(queue') = Len(queue) - 1
        /\ Head(queue) = queue[1]
        /\ \A i \in 1..Len(queue') : queue'[i] = queue[i + 1]
    BY <2>1 DEF Typed, AgentTyped
  <2>4. Len(printed) \in Nat /\ sent \in Nat
    BY DEF Typed, AgentTyped
  <2>5. Consecutive'
    <3>1. \A i \in 1..Len(queue') : i + 1 \in 1..Len(queue)
      BY <2>3
    <3>2. \A i \in 1..Len(queue') : queue'[i] = Len(printed) + (i + 1)
      BY <2>1, <2>3, <2>4, <3>1 DEF Consecutive
    <3> QED
      BY <2>1, <2>3, <2>4, <3>2 DEF Consecutive
  <2>6. Complete' /\ Unread'
    BY <2>1, <2>2, <2>3, <2>4 DEF Complete, Unread
  <2> QED
    BY <2>5, <2>6
<1>9. CASE print_event
  <2>1. agent = "print" /\ agent' = "test" /\ printed' = Append(printed, cur)
    BY <1>9, LinesFit DEF print_event, Step
  <2>2. UNCHANGED <<queue, congested, err, sent>>
    BY <1>9 DEF print_event, socket
  <2>3. /\ Len(printed') = Len(printed) + 1 /\ printed'[Len(printed) + 1] = cur
        /\ \A i \in 1..Len(printed) : printed'[i] = printed[i]
    BY <2>1 DEF Typed, AgentTyped
  <2>4. Len(printed) \in Nat /\ sent \in Nat /\ Len(queue) \in Nat
    BY DEF Typed, AgentTyped
  <2>5. Consecutive'
    BY <2>1, <2>2, <2>3, <2>4 DEF Consecutive
  <2>6. Complete' /\ Unread'
    BY <2>1, <2>2, <2>3, <2>4 DEF Complete, Unread
  <2> QED
    BY <2>5, <2>6
<1>10. ASSUME CreateSocket \/ Unload \/ Module \/ signal_handler
       PROVE UNCHANGED <<queue, congested, err, agent, cur, printed, sent>>
  BY <1>10 DEF CreateSocket, Unload, Module, Register, RegisterKprobe, Unregister,
     Disarm, Synchronize, ReleaseSocket, signal_handler, socket, main
<1>11. ASSUME NEW c \in Cpus, FilePath(c) \/ (\E k \in Probes, task \in {"app", "agent", "kthread"} : Enter(c, k, task))
       PROVE UNCHANGED <<queue, congested, err, agent, cur, printed, sent>>
  BY <1>11 DEF FilePath, Enter, socket, main
<1>12. UNCHANGED vars => UNCHANGED <<queue, congested, err, agent, cur, printed, sent>>
  BY DEF vars, socket, main
<1> QED
  BY <1>1, <1>2, <1>3, <1>4, <1>5, <1>6, <1>7, <1>8, <1>9, <1>10, <1>11, <1>12
     DEF Next, Handler, Agent

LEMMA NumbersUnique ==
    ASSUME NEW s \in Seq(Nat), NEW n \in Nat, Len(s) = n, \A i \in 1..n : s[i] = i
    PROVE  s = Numbers(n)
<1>1. s \in [1..n -> Nat]
  OBVIOUS
<1> QED
  BY <1>1 DEF Numbers

\* For every buffer size: what an agent prints is what was broadcast from its
\* bind on, without gap, repetition or reordering; and as long as its socket
\* is not congested nothing is missing.
THEOREM NothingIsSkipped == Spec => []NoSilentGap
<1>1. Typed /\ FeedInv => NoSilentGap
  <2> SUFFICES ASSUME Typed, FeedInv PROVE NoSilentGap
    OBVIOUS
  <2>1. printed \in Seq(Nat) /\ queue \in Seq(Nat) /\ sent \in Nat
    BY DEF Typed, AgentTyped
  <2>2. \A i \in 1..Len(printed) : printed[i] = i
    BY DEF FeedInv, Consecutive
  <2>3. PrintedInOrder
    BY <2>1, <2>2, NumbersUnique DEF PrintedInOrder
  <2>4. ASSUME agent \in {"test", "recv"}, ~congested PROVE printed \o queue = Numbers(sent)
    <3>1. Len(printed) + Len(queue) = sent
      BY <2>1, <2>4 DEF FeedInv, Complete, Held, Member
    <3>2. \A i \in 1..Len(queue) : queue[i] = Len(printed) + i
      BY <2>1, <2>4 DEF FeedInv, Consecutive, Held
    <3>3. \A i \in 1..sent : (printed \o queue)[i] = i
      <4> SUFFICES ASSUME NEW i \in 1..sent PROVE (printed \o queue)[i] = i
        OBVIOUS
      <4>1. CASE i <= Len(printed)
        BY <2>1, <2>2, <3>1, <4>1
      <4>2. CASE i > Len(printed)
        <5>1. i - Len(printed) \in 1..Len(queue)
          BY <2>1, <3>1, <4>2
        <5>2. (printed \o queue)[i] = queue[i - Len(printed)]
          BY <2>1, <3>1, <4>2
        <5> QED
          BY <2>1, <3>2, <5>1, <5>2
      <4>3. i <= Len(printed) \/ i > Len(printed)
        BY <2>1
      <4> QED
        BY <4>1, <4>2, <4>3
    <3>4. printed \o queue \in Seq(Nat) /\ Len(printed \o queue) = sent
      BY <2>1, <3>1
    <3> QED
      BY <2>1, <3>3, <3>4, NumbersUnique
  <2> QED
    BY <2>3, <2>4 DEF NoSilentGap, NothingMissing
<1> QED
  BY <1>1, TypedInit, TypedStep, FeedInit, FeedStep, PTL DEF Spec

-----------------------------------------------------------------------------
(* Counting: pages, and the causes of events.                              *)

Reading == {c \in Cpus : cpu[c] = At("file", "path")}
Active  == {c \in Cpus : cpu[c] # Idle}

CountInv ==
    /\ pages = Cardinality(Reading)
    /\ reports + Cardinality(Active) <= acts

LEMMA FiniteCounts ==
    /\ IsFiniteSet(Reading) /\ IsFiniteSet(Active)
    /\ Cardinality(Reading) \in 0..Cardinality(Cpus)
    /\ Cardinality(Active) \in Nat /\ Cardinality(Cpus) \in Nat
<1>1. Reading \in SUBSET Cpus /\ Active \in SUBSET Cpus
  BY DEF Reading, Active
<1> QED
  BY <1>1, EdrAssumption, FS_Subset, FS_CardinalityType

LEMMA CountInit == Init => CountInv
<1> SUFFICES ASSUME Init PROVE CountInv
  OBVIOUS
<1>1. Reading = {} /\ Active = {}
  BY CpuStatesFacts DEF Init, Reading, Active
<1> QED
  BY <1>1, FS_EmptySet DEF Init, CountInv

LEMMA CountStep == Typed /\ CountInv /\ [Next]_vars => CountInv'
<1> SUFFICES ASSUME Typed, CountInv, [Next]_vars PROVE CountInv'
  OBVIOUS
<1>0. cpu \in [Cpus -> CpuStates] /\ acts \in Nat /\ reports \in Nat /\ pages \in Int
  BY EdrAssumption DEF Typed, HooksTyped, AgentTyped
<1>1. CASE UNCHANGED <<cpu, pages, acts, reports>>
  BY <1>1 DEF CountInv, Reading, Active
<1>2. ASSUME NEW c \in Cpus, NEW k \in Probes, NEW task \in {"app", "agent", "kthread"},
             Enter(c, k, task)
      PROVE CountInv'
  <2>1. task = "app" /\ acts' = acts + 1 /\ reports' = reports
    BY <1>2 DEF Enter, should_skip
  <2>2. Active' = Active \cup {c} /\ c \notin Active
    BY <1>0, <1>2, CpuStatesFacts DEF Enter, Active, At, Idle
  <2>3. Cardinality(Active') = Cardinality(Active) + 1
    BY <2>2, FiniteCounts, FS_AddElement
  <2>4. CASE k = "file"
    <3>1. Reading' = Reading \cup {c} /\ c \notin Reading
      BY <1>0, <1>2, <2>4, CpuStatesFacts DEF Enter, Reading
    <3>2. Cardinality(Reading') = Cardinality(Reading) + 1 /\ pages' = pages + 1
      BY <1>2, <2>4, <3>1, FiniteCounts, FS_AddElement DEF Enter
    <3> QED
      BY <1>0, <2>1, <2>3, <3>2, FiniteCounts DEF CountInv
  <2>5. CASE k # "file"
    <3>1. Reading' = Reading
      BY <1>0, <1>2, <2>5, CpuStatesFacts DEF Enter, Reading, At, Idle
    <3> QED
      BY <1>0, <1>2, <2>1, <2>3, <2>5, <3>1, FiniteCounts DEF CountInv, Enter
  <2> QED
    BY <2>4, <2>5
<1>3. ASSUME NEW c \in Cpus, FilePath(c) PROVE CountInv'
  <2>1. Reading' = Reading \ {c} /\ c \in Reading
    BY <1>0, <1>3, CpuStatesFacts DEF FilePath, Reading
  <2>2. Cardinality(Reading') = Cardinality(Reading) - 1
    BY <2>1, FiniteCounts, FS_RemoveElement
  <2>3. Active' \in {Active, Active \ {c}} /\ c \in Active
    BY <1>0, <1>3, CpuStatesFacts DEF FilePath, Active
  <2>4. Cardinality(Active') <= Cardinality(Active) /\ Cardinality(Active') \in Nat
    <3>1. Cardinality(Active \ {c}) = Cardinality(Active) - 1
      BY <2>3, FiniteCounts, FS_RemoveElement
    <3>2. Cardinality(Active') \in {Cardinality(Active), Cardinality(Active) - 1}
      BY <2>3, <3>1
    <3>3. IsFiniteSet(Active \ {c}) /\ IsFiniteSet(Active)
      BY FiniteCounts, FS_RemoveElement
    <3>4. Cardinality(Active') \in Nat
      BY <2>3, <3>3, FS_CardinalityType
    <3> QED
      BY <3>2, <3>4, FiniteCounts
  <2> QED
    BY <1>0, <1>3, <2>2, <2>4, FiniteCounts DEF CountInv, FilePath
<1>4. ASSUME NEW c \in Cpus, send_event(c) PROVE CountInv'
  <2>1. Reading' = Reading
    BY <1>0, <1>4, CpuStatesFacts DEF send_event, Reading, At, Idle
  <2>2. Active' = Active \ {c} /\ c \in Active
    BY <1>0, <1>4, CpuStatesFacts DEF send_event, Active
  <2>3. Cardinality(Active') = Cardinality(Active) - 1
    BY <2>2, FiniteCounts, FS_RemoveElement
  <2>4. reports' \in {reports, reports + 1} /\ UNCHANGED <<acts, pages>>
    BY <1>4 DEF send_event, Broadcast
  <2> QED
    BY <1>0, <2>1, <2>3, <2>4, FiniteCounts DEF CountInv
<1>5. ASSUME CreateSocket \/ Unload \/ Module \/ Start \/ signal_handler \/ Agent
      PROVE UNCHANGED <<cpu, pages, acts, reports>>
  BY <1>5 DEF CreateSocket, Unload, Module, Register, RegisterKprobe, Unregister,
     Disarm, Synchronize, ReleaseSocket, Start, signal_handler, Agent, Socket,
     Bind, Test, Receive, Recv, print_event, Close, hooks
<1>6. UNCHANGED vars => UNCHANGED <<cpu, pages, acts, reports>>
  BY DEF vars, hooks
<1> QED
  BY <1>1, <1>2, <1>3, <1>4, <1>5, <1>6 DEF Next, Handler

\* Every page that a handler takes for a path is freed on every way out, for
\* any number of CPUs inside the handlers (edr_kmodule.c:183-205).
THEOREM NoPageLeaks == Spec => []PagesAreFreed
<1>1. CountInv => PagesAreFreed
  BY DEF CountInv, PagesAreFreed, Reading
<1> QED
  BY <1>1, TypedInit, TypedStep, CountInit, CountStep, PTL DEF Spec

\* Every event has a cause outside the agent, whose own activity while it
\* prints never becomes one (edr_kmodule.c:53-55).
THEOREM NoEventFeedsItself == Spec => []NoFeedback
<1>1. Typed /\ CountInv => NoFeedback
  BY FiniteCounts, EdrAssumption DEF CountInv, NoFeedback, Typed, AgentTyped, HooksTyped
<1> QED
  BY <1>1, TypedInit, TypedStep, CountInit, CountStep, PTL DEF Spec

\* Every variable keeps its type; no more pages are in use than there are
\* CPUs, and the queue holds events of this run only.
THEOREM TypeCorrect == Spec => []TypeOK
<1>1. Typed /\ CountInv /\ FeedInv => TypeOK
  <2> SUFFICES ASSUME Typed, CountInv, FeedInv PROVE TypeOK
    OBVIOUS
  <2>1. cpu \in [Cpus -> [probe : Probes \cup {"none"}, at : {"idle", "path", "send"}]]
    BY DEF Typed, HooksTyped, CpuStates, Idle, At
  <2>2. pages \in 0..Cardinality(Cpus)
    BY FiniteCounts DEF CountInv
  <2>3. queue \in Seq(1..sent)
    <3>1. CASE ~HasSocket
      BY <3>1, EmptyQueue DEF HasSocket, FeedInv, Unread, Typed, AgentTyped
    <3>2. CASE HasSocket
      <4>1. Len(printed) \in Nat /\ Held \in Nat /\ sent \in Nat /\ queue \in Seq(Nat)
        BY DEF Typed, AgentTyped, Held
      <4>2. \A i \in 1..Len(queue) : queue[i] \in 1..sent
        BY <3>2, <4>1 DEF FeedInv, Consecutive, Complete
      <4> QED
        BY <4>1, <4>2
    <3> QED
      BY <3>1, <3>2
  <2> QED
    BY <2>1, <2>2, <2>3 DEF TypeOK, Typed, KernelTyped, HooksTyped, AgentTyped
<1> QED
  BY <1>1, TypedInit, TypedStep, CountInit, CountStep, FeedInit, FeedStep, PTL DEF Spec
=============================================================================
