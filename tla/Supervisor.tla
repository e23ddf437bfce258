------------------------------ MODULE Supervisor ----------------------------
(***************************************************************************)
(* The entry point of the combined rental image: it starts the engine and   *)
(* the tether, forwards the signals it receives, and when one child exits   *)
(* stops the other within a shared grace period.  The interpreter runs a    *)
(* signal handler between any two steps of main, so a signal may arrive     *)
(* while a child is running but not yet in the list.                        *)
(***************************************************************************)
EXTENDS Integers, Sequences, FiniteSets

CONSTANTS
    Order,      \* the children, in the order they are started and polled
    Signals,    \* the numbers of SIGTERM and SIGINT
    Codes,      \* what a child may exit with
    Stubborn,   \* children that may ignore anything but a kill
    Grace,      \* SHUTDOWN_GRACE_SECONDS
    ReapWait,   \* the wait for a killed child
    MaxSignals  \* signals the container receives

Children == {Order[i] : i \in DOMAIN Order}

\* Not every child ignores the signals of the container.
ASSUME SupervisorAssumption ==
    /\ Order \in Seq(Children) \ {<<>>} /\ Cardinality(Children) = Len(Order)
    /\ Stubborn \subseteq Children /\ Stubborn # Children
    /\ Signals \subseteq Nat \ {0} /\ Codes \subseteq Int
    /\ {Grace, ReapWait} \subseteq Nat \ {0} /\ MaxSignals \in Nat

VARIABLES
    pc,         \* where main stands
    at,         \* the position in the list it works on
    children,   \* the list `children`
    proc,       \* what each process does
    code,       \* what a process ended with
    pending,    \* processes with a signal to act on
    received,   \* received_signal, 0 for NoCode
    live,       \* the children _stop found running
    left,       \* what is left of a wait
    status,     \* the exit status
    signals,    \* signals so far
    heard       \* a signal arrived with every child in the list

procVars == <<proc, code>>
vars == <<pc, at, children, procVars, pending, received, live, left, status, signals, heard>>

NoCode == -1000
Alive(c) == proc[c] \in {"running", "killed"}
Listed(c) == \E i \in DOMAIN children : children[i] = c

Init ==
    /\ pc = "start" /\ at = 1 /\ children = <<>>
    /\ proc = [c \in Children |-> "absent"] /\ code = [c \in Children |-> NoCode]
    /\ pending = {} /\ received = 0 /\ live = {} /\ left = 0 /\ status = NoCode
    /\ signals = 0 /\ heard = FALSE
-----------------------------------------------------------------------------
(* main *)

\* A return or an exception of main runs _stop, which first lists who is alive.
Returns(s) ==
    /\ status' = s /\ pc' = "terminate" /\ at' = 1
    /\ live' = {c \in Children : Listed(c) /\ Alive(c)}

Starts ==
    /\ pc = "start"
    /\ \/ /\ proc' = [proc EXCEPT ![Order[at]] = "running"]
          /\ pc' = "append"
          /\ UNCHANGED <<at, status, live>>
       \/ Returns(2) /\ UNCHANGED proc
    /\ UNCHANGED <<children, code, pending, received, left, signals, heard>>

Appends ==
    /\ pc = "append"
    /\ children' = Append(children, Order[at])
    /\ IF at = Len(Order) THEN pc' = "poll" /\ at' = 1 ELSE pc' = "start" /\ at' = at + 1
    /\ UNCHANGED <<procVars, pending, received, live, left, status, signals, heard>>

\* After the last child the loop sleeps and starts over.
Polls ==
    /\ pc = "poll"
    /\ LET c == children[at]
       IN IF ~Alive(c)
            THEN Returns(IF received # 0 THEN 128 + received ELSE code[c])
            ELSE at' = (at % Len(children)) + 1 /\ UNCHANGED <<pc, status, live>>
    /\ UNCHANGED <<children, procVars, pending, received, left, signals, heard>>

\* forward_signal: the listed children that run are sent the signal.
Told_EngineOnly == {c \in Children : Listed(c) /\ Alive(c) /\ c = Order[1]}
Told == {c \in Children : Listed(c) /\ Alive(c)}

Signal(s) ==
    /\ pc # "exited" /\ signals < MaxSignals
    /\ signals' = signals + 1 /\ received' = s
    /\ pending' = pending \cup Told
    /\ heard' = (heard \/ Len(children) = Len(Order))
    /\ UNCHANGED <<pc, at, children, procVars, live, left, status>>
-----------------------------------------------------------------------------
(* _stop *)

Current == children[at]
Done == at > Len(children)

\* The deadline is taken once all have been told to terminate.
Terminates ==
    /\ pc = "terminate"
    /\ IF Done
         THEN pc' = "wait" /\ at' = 1 /\ left' = Grace /\ UNCHANGED pending
         ELSE /\ pending' = IF Current \in live /\ Alive(Current) THEN pending \cup {Current}
                            ELSE pending
              /\ at' = at + 1 /\ UNCHANGED <<pc, left>>
    /\ UNCHANGED <<children, procVars, received, live, status, signals, heard>>

\* The child is over, or out of time and killed.
Waits_Patiently ==
    /\ pc = "wait" /\ ~Done
    /\ Current \notin live \/ ~Alive(Current) \/ left = 0
    /\ at' = at + 1 /\ UNCHANGED <<pc, children, procVars, pending, received, live, left, status, signals, heard>>
Waits ==
    /\ pc = "wait" /\ ~Done
    /\ Current \notin live \/ ~Alive(Current) \/ left = 0
    /\ proc' = IF Current \in live /\ Alive(Current) THEN [proc EXCEPT ![Current] = "killed"]
               ELSE proc
    /\ at' = at + 1 /\ UNCHANGED <<pc, children, code, pending, received, live, left, status, signals, heard>>

StartsReaping ==
    /\ pc = "wait" /\ Done
    /\ pc' = "reap" /\ at' = 1 /\ left' = ReapWait
    /\ UNCHANGED <<children, procVars, pending, received, live, status, signals, heard>>

Reaps ==
    /\ pc = "reap" /\ ~Done
    /\ Current \notin live \/ ~Alive(Current) \/ left = 0
    /\ at' = at + 1 /\ left' = ReapWait
    /\ UNCHANGED <<pc, children, procVars, pending, received, live, status, signals, heard>>

Exits ==
    /\ pc = "reap" /\ Done
    /\ pc' = "exited"
    /\ UNCHANGED <<at, children, procVars, pending, received, live, left, status, signals, heard>>

Main == Starts \/ Appends \/ Polls \/ Terminates \/ Waits \/ StartsReaping \/ Reaps \/ Exits
-----------------------------------------------------------------------------
(* The processes, and time *)

\* A child ends by itself, by a signal it acts on, or because it was killed.
Ends(c) ==
    /\ Alive(c)
    /\ \E x \in Codes : code' = [code EXCEPT ![c] = x]
    /\ proc' = [proc EXCEPT ![c] = "ended"] /\ pending' = pending \ {c}
    /\ UNCHANGED <<pc, at, children, received, live, left, status, signals, heard>>

Ignores(c) ==
    /\ c \in Stubborn /\ c \in pending
    /\ pending' = pending \ {c}
    /\ UNCHANGED <<pc, at, children, procVars, received, live, left, status, signals, heard>>

\* Time matters only while _stop waits for a child.
Tick ==
    /\ pc \in {"wait", "reap"} /\ ~Done
    /\ Current \in live /\ Alive(Current) /\ left > 0
    /\ left' = left - 1
    /\ UNCHANGED <<pc, at, children, procVars, pending, received, live, status, signals, heard>>

Next ==
    \/ Main \/ Tick
    \/ \E s \in Signals : Signal(s)
    \/ \E c \in Children : Ends(c) \/ Ignores(c)

Spec == Init /\ [][Next]_vars

\* main and time go on, and a child acts on a signal it does not ignore.
Fairness ==
    /\ WF_vars(Main) /\ WF_vars(Tick)
    /\ \A c \in Children : WF_vars(c \in pending \ Stubborn /\ Ends(c))

FairSpec == Spec /\ Fairness
-----------------------------------------------------------------------------
\* No process survives the container unless it was killed: not one started just
\* before its sibling failed to start, nor one that ignores signals.
NoChildLeft == pc = "exited" => \A c \in Children : proc[c] # "running"

\* When either child exits the container does, and so it does after a stop
\* request that arrives once both are listed, though a child may ignore it
\* (entrypoint.py:80-82, 98-101).
ContainerEnds == (heard \/ \E c \in Children : proc[c] = "ended") ~> pc = "exited"
=============================================================================
