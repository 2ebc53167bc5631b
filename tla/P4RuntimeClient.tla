--------------------------- MODULE P4RuntimeClient ---------------------------
(***************************************************************************)
(* p4runtime_lib in use: the main thread that programs switches one after   *)
(* the other (program_switch of simple_controller.py, or the tests of       *)
(* ptf/basic_fwd.py), the dispatcher thread of each connection              *)
(* (StreamDispatcher) and the switches' P4Runtime servers, which are        *)
(* external.  Connection number c is the one the c-th job opens.            *)
(***************************************************************************)
EXTENDS BasicFwdTests

CONSTANTS
    Switches,    \* the switches with a P4Runtime server
    Programs,    \* the sequences of jobs a main thread may have to do
    Chatter,     \* the kinds of messages servers send unasked
    MaxJobs,     \* bound: jobs of a main thread
    MaxChatter,  \* bound: messages sent unasked
    MaxFaults    \* bound: failed calls and broken streams

(* A job is [kind, switch, conf, p4info, entries, steps]: a "program" reads  *)
(* its runtime configuration, table entries before groups before clone        *)
(* sessions; a "test" has them in its code, and steps.  `conf' tells what is  *)
(* wrong with the files: "ok", "invalid" (check_switch_conf raises            *)
(* ConfException) or "bad p4info" (P4InfoHelper raises).                      *)

Kinds == {"arbitration", "packet", "idle_timeout_notification", "error", "unknown"}
Outcomes == {"pending", "invalid", "ok", "raised", "passed", "failed", "error"}
Stages == {"load", "arbitrate", "await", "config", "write", "verify", "close", "stop", "done"}

ASSUME ProgramsAssumption ==
    \A js \in Programs :
        /\ Len(js) \in 1 .. MaxJobs /\ DOMAIN js = 1 .. Len(js)
        /\ \A j \in DOMAIN js :
               /\ js[j].kind \in {"program", "test"} /\ js[j].switch \in Switches
               /\ js[j].conf \in {"ok", "invalid", "bad p4info"}
               /\ Len(js[j].entries) \in Nat
               /\ DOMAIN js[j].entries = 1 .. Len(js[j].entries)
               /\ \A i \in DOMAIN js[j].entries :
                     js[j].entries[i].kind \in {"table", "group", "clone"}
\* What p4c promises of names and bitwidths, and that numbers are whole.
ASSUME P4InfoAssumption ==
    \A js \in Programs : \A j \in DOMAIN js :
        /\ \A a, b \in js[j].p4info.actions : a.name = b.name => a = b
        /\ \A a \in js[j].p4info.actions :
               /\ \A p, q \in a.params : p.name = q.name => p = q
               /\ \A p \in a.params : p.bitwidth \in Nat \ {0}
        /\ \A i \in DOMAIN js[j].entries :
               LET entry == js[j].entries[i] IN
               entry.kind = "table" =>
                   \A b \in entry.params :
                       LET v == Unwrapped(b.value) IN v.kind = "number" => v.number \in Int
ASSUME BoundsAssumption ==
    /\ Chatter \subseteq Kinds \ {"arbitration"}
    /\ MaxJobs \in Nat /\ MaxChatter \in Nat /\ MaxFaults \in Nat

VARIABLES
    jobs,         \* what the main thread has to do, in order
    main,         \* where it is: its job, the next entry, the next connection to close
    outcome,      \* how each job ended
    connections,  \* the list `connections', in order of creation
    requests,     \* requests_stream of each connection
    stream,       \* its stream: "none", "open" or "closed"
    inbound,      \* the server's messages that its thread has not read
    dispatcher,   \* its thread: "none", "receiving", "ended" or the kind of message in hand
    running,      \* its flag, cleared by stop()
    received,     \* messages in each of its queues
    late,         \* how many were put there after stop()
    switch,       \* each switch: the job whose pipeline it runs, its entities, its primary
    budget        \* faults and unasked messages so far

vars == <<jobs, main, outcome, connections, requests, stream, inbound, dispatcher,
          running, received, late, switch, budget>>
connVars == <<requests, stream, inbound, dispatcher, running, received, late>>

Conns == 1 .. MaxJobs
Job == jobs[main.job]
At(stage) == main.at = stage
Primary == switch[Job.switch].primary

Init ==
    /\ jobs \in Programs
    /\ main = [job |-> 1, at |-> "load", next |-> 1, closing |-> 1]
    /\ outcome = [c \in Conns |-> "pending"]
    /\ connections = <<>>
    /\ requests = [c \in Conns |-> <<>>]
    /\ stream = [c \in Conns |-> "none"]
    /\ inbound = [c \in Conns |-> <<>>]
    /\ dispatcher = [c \in Conns |-> "none"]
    /\ running = [c \in Conns |-> TRUE]
    /\ received = [c \in Conns |-> [k \in Kinds |-> 0]]
    /\ late = [c \in Conns |-> 0]
    /\ switch = [s \in Switches |-> [pipeline |-> 0, table |-> {}, primary |-> 0]]
    /\ budget = [faults |-> 0, chatter |-> 0]

-----------------------------------------------------------------------------
(* What a write does to a switch. *)

IsDefault(e) == e.kind = "table" /\ e.is_default_action

SameKey(e, f) ==
    /\ e.kind = f.kind /\ ~IsDefault(e) /\ ~IsDefault(f)
    /\ IF e.kind = "table"
       THEN e.table = f.table /\ e.match = f.match /\ e.priority = f.priority
       ELSE e.id = f.id

\* A default entry is written with MODIFY: it replaces the one there was.
Replaces(e, f) == IsDefault(e) /\ IsDefault(f) /\ e.table = f.table

\* The others with INSERT, an error if the key exists.
Refused(table, e) == \E f \in table : SameKey(e, f)
\* Mutant: defaults are inserted too.
WrittenBeside(table, e) == table \cup {e}

Written(table, e) == {f \in table : ~Replaces(e, f)} \cup {e}

\* The entities the first n entries of a job amount to.
Entity(job, i) == Build(job.p4info, job.entries[i])
Configured(job, n) ==
    {Entity(job, i) : i \in {i \in 1 .. n :
        \A k \in i + 1 .. n : ~Replaces(Entity(job, k), Entity(job, i))}}

Passes(job, table) ==
    \A i \in DOMAIN job.steps :
        Forwarded(table, job.steps[i].send) = job.steps[i].expect

\* The tests are right: each passes on a switch that holds its own entries only.
ASSUME TestsAssumption ==
    \A js \in Programs : \A j \in DOMAIN js :
        js[j].kind = "test" /\ js[j].conf = "ok" =>
            Passes(js[j], Configured(js[j], Len(js[j].entries)))

-----------------------------------------------------------------------------
(* The main thread. *)

\* Mutant: no end of the list.
NextJobForEver(result) ==
    IF result = "raised" THEN [main EXCEPT !.at = "done"]
    ELSE [job |-> main.job + 1, at |-> "load", next |-> 1, closing |-> 1]

\* A program_switch that raises takes exercise runner and network down with it;
\* after a test, whatever its outcome, the next one is run.
NextJob(result) ==
    IF main.job = Len(jobs) \/ result = "raised"
    THEN [main EXCEPT !.at = "done"]
    ELSE [job |-> main.job + 1, at |-> "load", next |-> 1, closing |-> 1]

Finish(result) ==
    /\ outcome' = [outcome EXCEPT ![main.job] = result]
    /\ main' = NextJob(result)

\* program_switch's `finally' closes its own connection, the last of the list;
\* tearDown closes all there ever were.
Shutdown(result) ==
    /\ outcome' = [outcome EXCEPT ![main.job] = result]
    /\ main' = [main EXCEPT !.at = "close",
                            !.closing = IF Job.kind = "program" THEN Len(connections) ELSE 1]

\* Mutant: program_switch without its `finally'.
RaiseOnly ==
    IF Job.kind = "program" THEN Finish("raised")
    ELSE IF At("config") THEN Finish("error")
    ELSE Shutdown("error")

\* An exception.  unittest does not call tearDown when setUp raised.
Raise ==
    IF Job.kind = "program" THEN Shutdown("raised")
    ELSE IF At("config") THEN Finish("error")
    ELSE Shutdown("error")

\* SwitchConnection.__init__
OpenConnection ==
    /\ connections' = Append(connections, main.job)
    /\ stream' = [stream EXCEPT ![main.job] = "open"]
    /\ dispatcher' = [dispatcher EXCEPT ![main.job] = "receiving"]
    /\ main' = [main EXCEPT !.at = "arbitrate"]
    /\ UNCHANGED outcome

\* check_switch_conf's ConfException is caught, P4InfoHelper's is not.
ConnectProgram ==
    /\ At("load") /\ Job.kind = "program"
    /\ IF Job.conf = "ok" THEN OpenConnection
       ELSE /\ Finish(IF Job.conf = "invalid" THEN "invalid" ELSE "raised")
            /\ UNCHANGED <<connections, stream, dispatcher>>
    /\ UNCHANGED <<jobs, requests, inbound, running, received, late, switch, budget>>

\* setUp reads the p4info of its parameters.
SetUp ==
    /\ At("load") /\ Job.kind = "test"
    /\ IF Job.conf = "ok" THEN OpenConnection
       ELSE Finish("error") /\ UNCHANGED <<connections, stream, dispatcher>>
    /\ UNCHANGED <<jobs, requests, inbound, running, received, late, switch, budget>>

\* Mutant: dry_run prints the request and waits all the same.
ArbitrateDry ==
    /\ At("arbitrate")
    /\ main' = [main EXCEPT !.at = "await"]
    /\ UNCHANGED <<jobs, outcome, connections, requests, stream, inbound, dispatcher,
                   running, received, late, switch, budget>>

\* MasterArbitrationUpdate asks ...
Arbitrate ==
    /\ At("arbitrate")
    /\ requests' = [requests EXCEPT ![main.job] = Append(@, "arbitration")]
    /\ main' = [main EXCEPT !.at = "await"]
    /\ UNCHANGED <<jobs, outcome, connections, stream, inbound, dispatcher, running,
                   received, late, switch, budget>>

\* ... and waits, without a timeout, for its dispatcher to queue the answer.
GetArbitration ==
    /\ At("await")
    /\ received[main.job]["arbitration"] > 0
    /\ received' = [received EXCEPT ![main.job]["arbitration"] = @ - 1]
    /\ main' = [main EXCEPT !.at = "config"]
    /\ UNCHANGED <<jobs, outcome, connections, requests, stream, inbound, dispatcher,
                   running, late, switch, budget>>

\* A call fails without a primary (all clients have election id 1), or by a fault.
CallFails(fault) ==
    /\ fault => budget.faults < MaxFaults
    /\ budget' = [budget EXCEPT !.faults = IF fault THEN @ + 1 ELSE @]

\* Mutant: a switch that has a pipeline keeps its tables.
SetPipelineKeeping ==
    /\ At("config")
    /\ \E fault \in BOOLEAN :
         /\ CallFails(fault)
         /\ IF fault \/ Primary = 0
            THEN Raise /\ UNCHANGED switch
            ELSE /\ switch' = [switch EXCEPT ![Job.switch].pipeline = main.job]
                 /\ main' = [main EXCEPT !.at = "write"]
                 /\ UNCHANGED outcome
    /\ UNCHANGED <<jobs, connections, connVars>>

\* SetForwardingPipelineConfig, VERIFY_AND_COMMIT: the tables start over.
SetPipeline ==
    /\ At("config")
    /\ \E fault \in BOOLEAN :
         /\ CallFails(fault)
         /\ IF fault \/ Primary = 0
            THEN Raise /\ UNCHANGED switch
            ELSE /\ switch' = [switch EXCEPT ![Job.switch].pipeline = main.job,
                                             ![Job.switch].table = {}]
                 /\ main' = [main EXCEPT !.at = "write"]
                 /\ UNCHANGED outcome
    /\ UNCHANGED <<jobs, connections, connVars>>

\* One round of program_switch's loops, one add_ipv4_lpm_entry of a test.
WriteEntry ==
    /\ At("write") /\ main.next <= Len(Job.entries)
    /\ LET entry == Job.entries[main.next]
           entity == Build(Job.p4info, entry)
       IN  IF ~CanBuild(Job.p4info, entry)
           THEN Raise /\ UNCHANGED <<switch, budget>>
           ELSE \E fault \in BOOLEAN :
                  /\ CallFails(fault)
                  /\ IF fault \/ Primary = 0 \/ Refused(switch[Job.switch].table, entity)
                     THEN Raise /\ UNCHANGED switch
                     ELSE /\ switch' = [switch EXCEPT ![Job.switch].table = Written(@, entity)]
                          /\ main' = [main EXCEPT !.next = @ + 1]
                          /\ UNCHANGED outcome
    /\ UNCHANGED <<jobs, connections, connVars>>

WritesDone ==
    /\ At("write") /\ main.next > Len(Job.entries)
    /\ IF Job.kind = "program" THEN Shutdown("ok")
       ELSE main' = [main EXCEPT !.at = "verify"] /\ UNCHANGED outcome
    /\ UNCHANGED <<jobs, connections, connVars, switch, budget>>

\* The packets of a test and what it expects of each.
Verify ==
    /\ At("verify")
    /\ Shutdown(IF Passes(Job, switch[Job.switch].table) THEN "passed" ELSE "failed")
    /\ UNCHANGED <<jobs, connections, connVars, switch, budget>>

\* Mutant: shutdown only stops the dispatcher.
CloseNothing ==
    /\ At("close")
    /\ main' = [main EXCEPT !.at = "stop"]
    /\ UNCHANGED <<jobs, outcome, connections, requests, stream, inbound, dispatcher,
                   running, received, late, switch, budget>>

\* shutdown closes the request stream ...
Close ==
    /\ At("close")
    /\ LET c == connections[main.closing]
       IN  requests' = [requests EXCEPT ![c] = Append(@, "sentinel")]
    /\ main' = [main EXCEPT !.at = "stop"]
    /\ UNCHANGED <<jobs, outcome, connections, stream, inbound, dispatcher, running,
                   received, late, switch, budget>>

\* ... and then stops the dispatcher.
Stop ==
    /\ At("stop")
    /\ running' = [running EXCEPT ![connections[main.closing]] = FALSE]
    /\ main' = IF main.closing < Len(connections)
               THEN [main EXCEPT !.at = "close", !.closing = @ + 1]
               ELSE NextJob(outcome[main.job])
    /\ UNCHANGED <<jobs, outcome, connections, requests, stream, inbound, dispatcher,
                   received, late, switch, budget>>

Main == \/ ConnectProgram \/ SetUp \/ Arbitrate \/ GetArbitration \/ SetPipeline \/ WriteEntry
        \/ WritesDone \/ Verify \/ Close \/ Stop

-----------------------------------------------------------------------------
(* The dispatcher thread of connection c. *)

\* Mutant: the loop does not look at the flag.
DispatchReceiveAny(c) ==
    /\ dispatcher[c] = "receiving" /\ inbound[c] # <<>>
    /\ inbound' = [inbound EXCEPT ![c] = Tail(@)]
    /\ dispatcher' = [dispatcher EXCEPT ![c] = Head(inbound[c])]
    /\ UNCHANGED <<jobs, main, outcome, connections, requests, stream, running, received,
                   late, switch, budget>>

DispatchReceive(c) ==
    /\ dispatcher[c] = "receiving" /\ inbound[c] # <<>>
    /\ inbound' = [inbound EXCEPT ![c] = Tail(@)]
    /\ dispatcher' = [dispatcher EXCEPT ![c] = IF running[c] THEN Head(inbound[c]) ELSE "ended"]
    /\ UNCHANGED <<jobs, main, outcome, connections, requests, stream, running, received,
                   late, switch, budget>>

\* Mutant: all messages go to the queue of packets.
DispatchPutPacket(c) ==
    /\ dispatcher[c] \in Kinds
    /\ received' = [received EXCEPT ![c]["packet"] = @ + 1]
    /\ late' = [late EXCEPT ![c] = IF running[c] THEN @ ELSE @ + 1]
    /\ dispatcher' = [dispatcher EXCEPT ![c] = "receiving"]
    /\ UNCHANGED <<jobs, main, outcome, connections, requests, stream, inbound, running,
                   switch, budget>>

\* A message of no known kind is printed.
DispatchPut(c) ==
    /\ dispatcher[c] \in Kinds
    /\ IF dispatcher[c] = "unknown"
       THEN UNCHANGED <<received, late>>
       ELSE /\ received' = [received EXCEPT ![c][dispatcher[c]] = @ + 1]
            /\ late' = [late EXCEPT ![c] = IF running[c] THEN @ ELSE @ + 1]
    /\ dispatcher' = [dispatcher EXCEPT ![c] = "receiving"]
    /\ UNCHANGED <<jobs, main, outcome, connections, requests, stream, inbound, running,
                   switch, budget>>

\* The iteration ends with the stream, by an exception if that failed.
DispatchEnd(c) ==
    /\ dispatcher[c] = "receiving" /\ inbound[c] = <<>> /\ stream[c] = "closed"
    /\ dispatcher' = [dispatcher EXCEPT ![c] = "ended"]
    /\ UNCHANGED <<jobs, main, outcome, connections, requests, stream, inbound, running,
                   received, late, switch, budget>>

Dispatch(c) == DispatchReceive(c) \/ DispatchPut(c) \/ DispatchEnd(c)

-----------------------------------------------------------------------------
(* The server of connection c's switch. *)

Released(c) ==
    [s \in Switches |-> IF switch[s].primary = c THEN [switch[s] EXCEPT !.primary = 0]
                        ELSE switch[s]]

\* An election id already in use ends the stream of who comes second.
ServerArbitrate(c) ==
    /\ stream[c] = "open" /\ requests[c] # <<>> /\ Head(requests[c]) = "arbitration"
    /\ requests' = [requests EXCEPT ![c] = Tail(@)]
    /\ IF switch[jobs[c].switch].primary = 0
       THEN /\ switch' = [switch EXCEPT ![jobs[c].switch].primary = c]
            /\ inbound' = [inbound EXCEPT ![c] = Append(@, "arbitration")]
            /\ UNCHANGED stream
       ELSE /\ stream' = [stream EXCEPT ![c] = "closed"]
            /\ UNCHANGED <<switch, inbound>>
    /\ UNCHANGED <<jobs, main, outcome, connections, dispatcher, running, received, late,
                   budget>>

\* The end of the requests is the end of the stream.
ServerEnds(c) ==
    /\ stream[c] = "open" /\ requests[c] # <<>> /\ Head(requests[c]) = "sentinel"
    /\ requests' = [requests EXCEPT ![c] = Tail(@)]
    /\ stream' = [stream EXCEPT ![c] = "closed"]
    /\ switch' = Released(c)
    /\ UNCHANGED <<jobs, main, outcome, connections, inbound, dispatcher, running, received,
                   late, budget>>

\* Packets, notifications and errors go to the primary.
ServerSends(c) ==
    /\ stream[c] = "open" /\ switch[jobs[c].switch].primary = c
    /\ budget.chatter < MaxChatter
    /\ \E k \in Chatter : inbound' = [inbound EXCEPT ![c] = Append(@, k)]
    /\ budget' = [budget EXCEPT !.chatter = @ + 1]
    /\ UNCHANGED <<jobs, main, outcome, connections, requests, stream, dispatcher, running,
                   received, late, switch>>

\* The connection breaks, with what was on its way.
StreamFails(c) ==
    /\ stream[c] = "open" /\ budget.faults < MaxFaults
    /\ stream' = [stream EXCEPT ![c] = "closed"]
    /\ inbound' = [inbound EXCEPT ![c] = <<>>]
    /\ switch' = Released(c)
    /\ budget' = [budget EXCEPT !.faults = @ + 1]
    /\ UNCHANGED <<jobs, main, outcome, connections, requests, dispatcher, running,
                   received, late>>

Serve(c) == ServerArbitrate(c) \/ ServerEnds(c)

Next ==
    \/ Main
    \/ \E c \in Conns : Dispatch(c) \/ Serve(c) \/ ServerSends(c) \/ StreamFails(c)

Spec == Init /\ [][Next]_vars

\* The main thread, the dispatchers and the servers' streams are threads of their
\* own: each makes its next step unless it cannot.  Nothing makes a server send.
FairSpec ==
    /\ Spec
    /\ WF_vars(Main)
    /\ \A c \in Conns : WF_vars(Dispatch(c)) /\ WF_vars(Serve(c))

-----------------------------------------------------------------------------
(* Properties. *)

\* The state has the shape the declarations promise.
TypeOK ==
    /\ jobs \in Programs
    /\ main.job \in DOMAIN jobs /\ main.at \in Stages
    /\ main.next \in 1 .. Len(Job.entries) + 1
    /\ main.closing \in Nat
    /\ outcome \in [Conns -> Outcomes]
    /\ connections \in Seq(Conns)
    /\ requests \in [Conns -> Seq({"arbitration", "sentinel"})]
    /\ stream \in [Conns -> {"none", "open", "closed"}]
    /\ inbound \in [Conns -> Seq(Kinds)]
    /\ dispatcher \in [Conns -> {"none", "receiving", "ended"} \cup Kinds]
    /\ running \in [Conns -> BOOLEAN]
    /\ received \in [Conns -> [Kinds -> Nat]]
    /\ late \in [Conns -> Nat]
    /\ DOMAIN switch = Switches
    /\ \A s \in Switches : switch[s].pipeline \in Conns \cup {0}
                           /\ switch[s].primary \in Conns \cup {0}
    /\ budget.faults \in 0 .. MaxFaults /\ budget.chatter \in 0 .. MaxChatter

\* A switch holds what a prefix of the entries of the job that gave it its
\* pipeline amounts to, all of them once that job ended well: no entry of an
\* earlier job or of another switch, none twice, none left out
\* (program_switch's loops, WriteTableEntry's choice of INSERT or MODIFY).
TablesAreConfigured ==
    \A s \in Switches :
        LET j == switch[s].pipeline IN
        IF j = 0 THEN switch[s].table = {}
        ELSE \E n \in 0 .. Len(jobs[j].entries) :
                /\ switch[s].table = Configured(jobs[j], n)
                /\ outcome[j] \in {"ok", "passed"} => n = Len(jobs[j].entries)

\* The parameter a of an entity is b of the configuration.
Exact(p4info, action, b, a) ==
    LET v == Unwrapped(b.value) IN
    /\ a.param = b.param
    /\ v.kind = "number" =>
         \E p \in ActionParam(p4info, action, b.param) :
             /\ decodeNum(a.bytes) = v.number % Pow2[p.bitwidth]
             /\ Len(a.bytes) = bitwidthToBytes(p.bitwidth)

\* A parameter that is a number in the configuration reaches the switch as
\* that number, negative ones in two's complement (convert.encode).
ValuesExact ==
    \A s \in Switches : \A e \in switch[s].table :
        e.kind = "table" =>
            \E i \in DOMAIN jobs[switch[s].pipeline].entries :
                LET job == jobs[switch[s].pipeline]
                    entry == job.entries[i]
                IN  /\ entry.kind = "table"
                    /\ \A a \in e.params : \E b \in entry.params :
                         Exact(job.p4info, entry.action, b, a)

\* After stop() the dispatcher puts at most the one message it had in hand into
\* the queues: it looks at the flag before each message, not after it.
AtMostOneLate == \A c \in Conns : late[c] <= 1

\* Whatever went wrong in it, a program_switch that is over has shut its
\* connection down (its `finally').
FinallyClosed ==
    \A c \in Conns :
        /\ stream[c] # "none" /\ jobs[c].kind = "program"
        /\ c < main.job \/ At("done")
        => /\ ~running[c]
           /\ stream[c] = "closed" \/ \E i \in DOMAIN requests[c] : requests[c][i] = "sentinel"

\* The tests do not disturb each other: though no test removes its entries, each
\* that gets to its packets sees what it expects (setUp's pipeline config).
TestsIsolated == \A c \in Conns : outcome[c] # "failed"

\* A connection that was shut down goes away: server and dispatcher are done with
\* it, also when its stream failed first or was refused.
StreamsReleased ==
    \A c \in Conns :
        ~running[c] ~> (stream[c] = "closed" /\ dispatcher[c] = "ended")

\* MasterArbitrationUpdate gets its answer unless the stream ends instead.
ArbitrationAnswered ==
    \A c \in Conns :
        (main.job = c /\ At("await"))
            ~> (main.job # c \/ ~At("await") \/ stream[c] = "closed")

\* With a switch for each job and nothing broken, the main thread gets to the
\* end of its program, whatever the configurations are like.
NothingShared == \A c, d \in DOMAIN jobs : c # d => jobs[c].switch # jobs[d].switch
ProgramsEnd == (NothingShared /\ [](budget.faults = 0)) => <>At("done")

=============================================================================
