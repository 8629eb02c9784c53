---------------------------- MODULE EdrPipeline ----------------------------
(***************************************************************************)
(* The endpoint sensor mini_edr: the kernel module edr_kmodule.c, whose    *)
(* kprobe handlers turn exec, open and connect of programs into events,    *)
(* the netlink socket that carries them, and the agent edr_agent.c, which  *)
(* prints them.  Handlers run on several CPUs, with preemption off, while  *)
(* the module is loaded and unloaded and the agent starts and stops.  An   *)
(* event is its number among those broadcast since the agent's bind.       *)
(***************************************************************************)
EXTENDS Integers, Sequences, FiniteSets

CONSTANTS
    Cpus,        \* CPUs that may be inside a handler
    QueueMax,    \* events that fit into the receive buffer of the agent
    MaxActs,     \* bound on the hooked calls of programs
    MaxRuns,     \* bound on the runs of the agent
    MaxLoads     \* bound on the loads of the module

ASSUME EdrAssumption ==
    /\ IsFiniteSet(Cpus)
    /\ QueueMax \in Nat \ {0}
    /\ MaxActs \in Nat /\ MaxRuns \in Nat /\ MaxLoads \in Nat

Probes == {"exec", "file", "connect"}
EDR_COMM_LEN == 16
EDR_PATH_LEN == 256

VARIABLES
    mod,                \* edr_init and edr_exit: where they are
    nlSock,             \* nl_sock exists
    armed,              \* registered kprobes
    cpu,                \* the handler on each CPU: probe and place, or Idle
    pages,              \* pages taken by __get_free_page and not freed
    queue, congested, err,   \* the agent's socket: receive queue,
                        \* NETLINK_S_CONGESTED and sk_err = ENOBUFS
    agent,              \* main of the agent: where it is
    running,            \* its flag, cleared by the signal handler
    cur,                \* the event in its buffer
    sent, printed,      \* history of the run: events broadcast, printed
    acts, reports, runs, loads   \* history: hooked calls, events, runs, loads

kernel == <<mod, nlSock, armed, loads>>
hooks  == <<cpu, pages, acts>>
socket == <<queue, congested, err>>
main   == <<agent, running, cur, printed, runs>>
vars   == <<kernel, hooks, socket, main, sent, reports>>

Idle == [probe |-> "none", at |-> "idle"]
At(k, p) == [probe |-> k, at |-> p]

\* The agent's netlink socket exists; it is in the multicast group.
HasSocket == agent \in {"bind", "test", "recv", "print", "close"}
Member    == agent \in {"test", "recv", "print", "close"}

-----------------------------------------------------------------------------
(* edr_kmodule.c: init and exit.                                           *)

Goto(from, to) == mod = from /\ mod' = to

\* netlink_kernel_create; when it fails the module is not loaded.
CreateSocket ==
    /\ Goto("out", "init_exec")
    /\ loads < MaxLoads /\ loads' = loads + 1
    /\ nlSock' = TRUE
    /\ UNCHANGED <<armed, hooks, socket, main, sent, reports>>

\* "continue even if some fail"
RegisterKprobe(k, from, to) ==
    /\ Goto(from, to)
    /\ armed' \in {armed, armed \cup {k}}
    /\ UNCHANGED <<nlSock, loads, hooks, socket, main, sent, reports>>

Register ==
    \/ RegisterKprobe("exec", "init_exec", "init_file")
    \/ RegisterKprobe("file", "init_file", "init_connect")
    \/ RegisterKprobe("connect", "init_connect", "in")

\* rmmod; the agent's socket holds a reference to the module.
Unload ==
    /\ Goto("in", "exit_exec")
    /\ ~HasSocket
    /\ UNCHANGED <<nlSock, armed, loads, hooks, socket, main, sent, reports>>

\* unregister_kprobe disarms the probe, then waits for its running handlers.
\* It does nothing for a probe whose registration failed.
Disarm(k, from) ==
    /\ mod = from /\ k \in armed
    /\ armed' = armed \ {k}
    /\ UNCHANGED <<mod, nlSock, loads, hooks, socket, main, sent, reports>>

Synchronize(k, from, to) ==
    /\ Goto(from, to)
    /\ k \notin armed
    /\ \A c \in Cpus : cpu[c].probe # k
    /\ UNCHANGED <<nlSock, armed, loads, hooks, socket, main, sent, reports>>

\* Mutation: the connect probe is forgotten.
UnregisterTwo ==
    \/ Disarm("exec", "exit_exec") \/ Synchronize("exec", "exit_exec", "exit_file")
    \/ Disarm("file", "exit_file") \/ Synchronize("file", "exit_file", "release")

Unregister ==
    \/ Disarm("exec", "exit_exec") \/ Synchronize("exec", "exit_exec", "exit_file")
    \/ Disarm("file", "exit_file") \/ Synchronize("file", "exit_file", "exit_connect")
    \/ Disarm("connect", "exit_connect") \/ Synchronize("connect", "exit_connect", "release")

ReleaseSocket ==
    /\ Goto("release", "out")
    /\ nlSock' = FALSE
    /\ UNCHANGED <<armed, loads, hooks, socket, main, sent, reports>>

-----------------------------------------------------------------------------
(* edr_kmodule.c: the handlers.  Calls that are filtered change nothing.   *)

\* Mutation: the agent is not filtered.
SkipKthreads(task) == task = "kthread"
should_skip(task) == task \in {"kthread", "agent"}

\* Programs act at any time; the agent opens files while it formats a time.
Acting(task, k) ==
    \/ task = "app" /\ acts < MaxActs
    \/ task = "agent" /\ agent = "print" /\ k = "file"

\* The handler up to its first allocation.  An exec of a path that is not
\* noisy and a connect to an IP address go on to send_event.
Enter(c, k, task) ==
    /\ cpu[c] = Idle /\ k \in armed
    /\ Acting(task, k) /\ ~should_skip(task)
    /\ cpu' = [cpu EXCEPT ![c] = At(k, IF k = "file" THEN "path" ELSE "send")]
    /\ pages' = IF k = "file" THEN pages + 1 ELSE pages
    /\ acts' = IF task = "app" THEN acts + 1 ELSE acts
    /\ UNCHANGED <<kernel, socket, main, sent, reports>>

\* Mutation: the page stays allocated when the path is not reported.
FilePathLeaks(c) ==
    /\ cpu[c] = At("file", "path")
    /\ \/ cpu' = [cpu EXCEPT ![c] = Idle] /\ UNCHANGED pages
       \/ cpu' = [cpu EXCEPT ![c] = At("file", "send")] /\ pages' = pages - 1
    /\ UNCHANGED <<kernel, acts, socket, main, sent, reports>>

\* d_path fails or the path is noisy, or the path goes into the event.
FilePath(c) ==
    /\ cpu[c] = At("file", "path")
    /\ \/ cpu' = [cpu EXCEPT ![c] = Idle]
       \/ cpu' = [cpu EXCEPT ![c] = At("file", "send")]
    /\ pages' = pages - 1
    /\ UNCHANGED <<kernel, acts, socket, main, sent, reports>>

\* netlink_broadcast: a full or congested socket loses the event; the first
\* loss sets sk_err.  The sender does not hear of it.
Broadcast ==
    /\ reports' = reports + 1
    /\ IF ~Member THEN UNCHANGED <<socket, sent>>
       ELSE /\ sent' = sent + 1
            /\ IF congested \/ Len(queue) = QueueMax
                 THEN /\ congested' = TRUE
                      /\ err' = (err \/ ~congested)
                      /\ UNCHANGED queue
                 ELSE /\ queue' = Append(queue, sent')
                      /\ UNCHANGED <<congested, err>>

\* nlmsg_new may find no memory: the event is not broadcast at all.
send_event(c) ==
    /\ cpu[c].at = "send"
    /\ Broadcast \/ UNCHANGED <<socket, sent, reports>>
    /\ cpu' = [cpu EXCEPT ![c] = Idle]
    /\ UNCHANGED <<kernel, pages, acts, main>>

-----------------------------------------------------------------------------
(* edr_agent.c.                                                            *)

Step(from, to) == agent = from /\ agent' = to

\* A new process; it installs its signal handlers first.
Start ==
    /\ Step("off", "socket")
    /\ runs < MaxRuns /\ runs' = runs + 1
    /\ running' = TRUE
    /\ printed' = <<>> /\ sent' = 0
    /\ UNCHANGED <<kernel, hooks, socket, cur, reports>>

\* socket() and bind(); without a loaded module there is no such protocol.
Socket ==
    /\ \/ Step("socket", "bind") /\ nlSock /\ mod \in {"init_exec", "init_file", "init_connect", "in"}
       \/ Step("socket", "off")
    /\ UNCHANGED <<kernel, hooks, socket, running, cur, printed, runs, sent, reports>>

Bind ==
    /\ Step("bind", "test") \/ Step("bind", "off")
    /\ queue' = <<>> /\ congested' = FALSE /\ err' = FALSE
    /\ UNCHANGED <<kernel, hooks, running, cur, printed, runs, sent, reports>>

Test ==
    /\ Step("test", IF running THEN "recv" ELSE "close")
    /\ UNCHANGED <<kernel, hooks, socket, running, cur, printed, runs, sent, reports>>

\* A pending error comes before queued events, and ends the loop.  signal()
\* sets SA_RESTART: a signal does not interrupt recv.
Recv(onError) ==
    /\ \/ /\ err /\ Step("recv", onError)
          /\ err' = FALSE
          /\ UNCHANGED <<queue, congested, cur>>
       \/ /\ ~err /\ queue # <<>> /\ Step("recv", "print")
          /\ cur' = Head(queue) /\ queue' = Tail(queue)
          /\ congested' = (congested /\ queue' # <<>>)
          /\ UNCHANGED err
    /\ UNCHANGED <<kernel, hooks, running, printed, runs, sent, reports>>

\* Mutation: the loop goes on after any error.
RecvAgain == Recv("test")
Receive == Recv("close")

\* format_event: the length of the line, or -1.  Its two parts go one after
\* the other into the buffer, and each must leave room for the final NUL.
format_event(head, tail, len) ==
    IF head >= len \/ tail >= len - head THEN -1 ELSE head + tail

\* The lengths of the fields of an event from probe k, the shortest and the
\* longest: strscpy ends comm and path, %u has one to ten digits, and what
\* format_timestamp writes has 23 characters up to the last 64-bit nanosecond.
TypeLen == [exec |-> 12, file |-> 9, connect |-> 15]
HeadLens(k) == {48 + TypeLen[k] + digits + comm :
                  digits \in {3, 30}, comm \in {0, EDR_COMM_LEN - 1}}
TailLens(k) ==
    CASE k = "exec"    -> {10, 10 + EDR_PATH_LEN - 1}
      [] k = "file"    -> {16, 15 + EDR_PATH_LEN - 1 + 8}
      [] k = "connect" -> {9, 6 + 45 + 5}   \* "::":0, INET6_ADDRSTRLEN

\* Mutation: a buffer that holds the longest path.
BufLenShort == EDR_PATH_LEN
BufLen == 1024

\* A line that does not fit is dropped without a word.
print_event ==
    /\ Step("print", "test")
    /\ \E k \in Probes : \E head \in HeadLens(k), tail \in TailLens(k) :
         printed' = IF format_event(head, tail, BufLen) > 0
                      THEN Append(printed, cur) ELSE printed
    /\ UNCHANGED <<kernel, hooks, socket, running, cur, runs, sent, reports>>

Close ==
    /\ Step("close", "off")
    /\ queue' = <<>> /\ congested' = FALSE /\ err' = FALSE
    /\ UNCHANGED <<kernel, hooks, running, cur, printed, runs, sent, reports>>

signal_handler ==
    /\ agent # "off" /\ running
    /\ running' = FALSE
    /\ UNCHANGED <<kernel, hooks, socket, agent, cur, printed, runs, sent, reports>>

-----------------------------------------------------------------------------
Init ==
    /\ mod = "out" /\ nlSock = FALSE /\ armed = {} /\ loads = 0
    /\ cpu = [c \in Cpus |-> Idle] /\ pages = 0 /\ acts = 0
    /\ queue = <<>> /\ congested = FALSE /\ err = FALSE
    /\ agent = "off" /\ running = FALSE /\ cur = 0 /\ printed = <<>> /\ runs = 0
    /\ sent = 0 /\ reports = 0

Module == Register \/ Unregister \/ ReleaseSocket
Handler(c) == FilePath(c) \/ send_event(c)
Agent == Socket \/ Bind \/ Test \/ Receive \/ print_event \/ Close

Next ==
    \/ CreateSocket \/ Unload \/ Module
    \/ \E c \in Cpus, k \in Probes, task \in {"app", "agent", "kthread"} : Enter(c, k, task)
    \/ \E c \in Cpus : Handler(c)
    \/ Start \/ signal_handler \/ Agent

Spec == Init /\ [][Next]_vars

\* Code that has begun goes on; programs, users and signals do as they like.
Fairness ==
    /\ WF_vars(Agent)
    /\ \A c \in Cpus : WF_vars(Handler(c))
FairSpec == Spec /\ Fairness

-----------------------------------------------------------------------------
(* Properties.                                                             *)

Mods == {"out", "init_exec", "init_file", "init_connect", "in",
         "exit_exec", "exit_file", "exit_connect", "release"}

\* The type of every variable.
TypeOK ==
    /\ mod \in Mods /\ nlSock \in BOOLEAN /\ armed \in SUBSET Probes
    /\ cpu \in [Cpus -> [probe : Probes \cup {"none"}, at : {"idle", "path", "send"}]]
    /\ pages \in 0..Cardinality(Cpus)
    /\ queue \in Seq(1..sent) /\ Len(queue) <= QueueMax
    /\ congested \in BOOLEAN /\ err \in BOOLEAN
    /\ agent \in {"off", "socket", "bind", "test", "recv", "print", "close"}
    /\ running \in BOOLEAN
    /\ cur \in Nat /\ sent \in Nat /\ printed \in Seq(Nat)
    /\ acts \in 0..MaxActs /\ reports \in Nat
    /\ runs \in 0..MaxRuns /\ loads \in 0..MaxLoads

\* A handler never runs without the netlink socket it broadcasts on, nor does
\* one run, or can one start, once the module is gone
\* (edr_kmodule.c:280-329).
HandlersHaveSocket ==
    ~nlSock => armed = {} /\ \A c \in Cpus : cpu[c] = Idle

\* Every page a handler takes for a path is freed on every way out
\* (edr_kmodule.c:183-205).
PagesAreFreed ==
    pages = Cardinality({c \in Cpus : cpu[c] = At("file", "path")})

\* No feedback: every event has a cause outside the agent, whose own opens
\* while it prints must not become events (edr_kmodule.c:53-55).
NoFeedback == reports <= acts

Numbers(n) == [i \in 1..n |-> i]
PrintedInOrder == printed = Numbers(Len(printed))
NothingMissing ==
    agent \in {"test", "recv"} /\ ~congested => printed \o queue = Numbers(sent)

\* No silent gap: what a run of the agent prints are the first events that
\* were broadcast since its bind, each once and in order.  After a loss the
\* agent prints nothing from behind the gap; while no error is pending what
\* was broadcast is printed or queued; and no event is too long for the line
\* buffer, which would drop it (edr_agent.c:72-137, 180-202).
NoSilentGap == PrintedInOrder /\ NothingMissing

\* An event that reaches the agent's group is printed, or the agent stops
\* (edr_agent.c:129-137, 180-202).
EventsPrinted ==
    \A n \in 1..MaxActs :
        (Member /\ sent >= n) ~> (Len(printed) >= n \/ ~Member)

\* "Press Ctrl+C to stop." (edr_agent.c:174): an agent that got the signal
\* stops.
StopsWhenAsked == (agent # "off" /\ ~running) ~> (agent = "off")
=============================================================================
