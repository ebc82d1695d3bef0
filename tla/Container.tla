----------------------------- MODULE Container ------------------------------
(***************************************************************************)
(* entrypoint.sh, the first process of a container: it starts telnetd and  *)
(* the main service (prpd), restarts the service when it has died, and     *)
(* serves SIGHUP and SIGTERM in trap handlers. The shell runs a trap       *)
(* between any two commands, inside another handler too, so its control is *)
(* a stack of the commands still to be run. Process numbers are taken      *)
(* again, but never the one in MAIN_PID.                                   *)
(***************************************************************************)
EXTENDS Config, Sequences, FiniteSets

CONSTANTS
    Pids,     \* numbers of service processes
    Image,    \* the configuration file of the image
    Files,    \* contents it may be given
    Envs,     \* environments a container may be started with
    MaxHups, MaxTerms, MaxCrashes, MaxEdits   \* bounds, for model checking

VARIABLES
    env, file,   \* the environment; the configuration file
    edits,       \* how often the file was changed
    service,     \* process number -> what the service process is doing
    telnetd,     \* what telnetd is doing
    stack,       \* the commands of the shell, the current one last
    mainPid,     \* MAIN_PID
    lastPid,     \* $!
    trapped,     \* the traps are set
    pending,     \* signals whose trap has not run yet
    exit,        \* the status the shell ended with, Running before
    hups, terms, crashes

environment == <<env, file, edits>>
budgets == <<hups, terms, crashes>>
vars == <<environment, service, telnetd, stack, mainPid, lastPid, trapped, pending, exit, budgets>>

Running == -1
NoPid == 0

(* A service is forked and has not loaded its file, serves it, has had     *)
(* SIGTERM, is a zombie, or there is none.                                 *)
Free == [st |-> "free", conf |-> {}, edition |-> 0]
Is(p, st) == service[p].st = st

Top == stack[Len(stack)]
Goto(l) == [stack EXCEPT ![Len(stack)] = l]
Return == SubSeq(stack, 1, Len(stack) - 1)

At(l) == exit = Running /\ stack # <<>> /\ Top = l
Untrapped == pending = {}

(* kill -0 finds a process until the shell has waited for it. *)
Exists(p) == p # NoPid /\ ~Is(p, "free")

(* kill -TERM: a zombie ignores it. *)
Termed(s) == IF s.st \in {"forked", "serving"} THEN [s EXCEPT !.st = "termed"] ELSE s

(* The shell waits for some child and collects every one that has ended. *)
Reaped == [p \in Pids |-> IF Is(p, "zombie") THEN Free ELSE service[p]]

-----------------------------------------------------------------------------
(* The commands of the shell. *)

(* prpd & *)
Fork ==
    /\ At("fork") /\ Untrapped
    /\ \E p \in Pids :
           /\ Is(p, "free") /\ p # mainPid
           /\ \A q \in Pids : Is(q, "free") /\ q # mainPid => p <= q
           /\ service' = [service EXCEPT ![p] = [Free EXCEPT !.st = "forked"]]
           /\ lastPid' = p
    /\ stack' = Goto("setpid")
    /\ UNCHANGED <<environment, telnetd, mainPid, trapped, pending, exit, budgets>>

(* MAIN_PID=$! and the end of _start_main *)
SetPid ==
    /\ At("setpid") /\ Untrapped
    /\ mainPid' = lastPid
    /\ stack' = Return
    /\ UNCHANGED <<environment, service, telnetd, lastPid, trapped, pending, exit, budgets>>

SetTraps ==
    /\ At("trap")
    /\ trapped' = TRUE
    /\ stack' = Goto("sleep")
    /\ UNCHANGED <<environment, service, telnetd, mainPid, lastPid, pending, exit, budgets>>

(* sleep 1 & wait *)
Sleep ==
    /\ At("sleep") /\ Untrapped
    /\ service' = Reaped
    /\ stack' = Goto("check")
    /\ UNCHANGED <<environment, telnetd, mainPid, lastPid, trapped, pending, exit, budgets>>

(* Variant that leaves the restart to SIGHUP. *)
CheckOnly ==
    /\ At("check") /\ Untrapped
    /\ stack' = Goto("sleep")
    /\ UNCHANGED <<environment, service, telnetd, mainPid, lastPid, trapped, pending, exit, budgets>>

(* The loop tests the service and starts another if it is gone. HALT is    *)
(* only set in _cleanup, which never returns here.                         *)
Check ==
    /\ At("check") /\ Untrapped
    /\ stack' = IF Exists(mainPid) THEN Goto("sleep") ELSE Goto("sleep") \o <<"fork">>
    /\ UNCHANGED <<environment, service, telnetd, mainPid, lastPid, trapped, pending, exit, budgets>>

(* Variant that starts the new service and leaves the old one running. *)
ReloadKeepsOld ==
    /\ At("reload") /\ Untrapped
    /\ stack' = Goto(IF Exists(mainPid) THEN "reloadwait" ELSE "fork")
    /\ UNCHANGED <<environment, service, telnetd, mainPid, lastPid, trapped, pending, exit, budgets>>

(* _reload: the test and the SIGTERM *)
Reload ==
    /\ At("reload") /\ Untrapped
    /\ IF Exists(mainPid)
       THEN /\ service' = [service EXCEPT ![mainPid] = Termed(@)]
            /\ stack' = Goto("reloadwait")
       ELSE stack' = Goto("fork") /\ UNCHANGED service
    /\ UNCHANGED <<environment, telnetd, mainPid, lastPid, trapped, pending, exit, budgets>>

(* _reload: the loop of kill -0 and sleep *)
ReloadWait ==
    /\ At("reloadwait") /\ Untrapped
    /\ IF Exists(mainPid)
       THEN service' = Reaped /\ UNCHANGED stack
       ELSE stack' = Goto("fork") /\ UNCHANGED service
    /\ UNCHANGED <<environment, telnetd, mainPid, lastPid, trapped, pending, exit, budgets>>

(* _cleanup: SIGTERM for the service and for telnetd *)
Cleanup ==
    /\ At("cleanup") /\ Untrapped
    /\ service' = IF Exists(mainPid) THEN [service EXCEPT ![mainPid] = Termed(@)] ELSE service
    /\ telnetd' = Termed(telnetd)
    /\ stack' = Goto("waitall")
    /\ UNCHANGED <<environment, mainPid, lastPid, trapped, pending, exit, budgets>>

(* Variant that exits without waiting. *)
NothingToWaitFor == TRUE

NoChildLeft == telnetd.st = "zombie" /\ \A p \in Pids : service[p].st \in {"free", "zombie"}

(* _cleanup: wait for all children, then exit 0 *)
WaitAll ==
    /\ At("waitall") /\ Untrapped
    /\ NoChildLeft
    /\ service' = Reaped /\ exit' = 0
    /\ UNCHANGED <<environment, telnetd, stack, mainPid, lastPid, trapped, pending, budgets>>

(* The wait of _cleanup was cut short by a signal: set -e ends the shell. *)
ExitOnError ==
    /\ At("error") /\ Untrapped
    /\ exit' = 129
    /\ UNCHANGED <<environment, service, telnetd, stack, mainPid, lastPid, trapped, pending, budgets>>

(* The trap of the lowest pending signal runs before the current command,  *)
(* or cuts it short if it is a wait: in the loop "|| true" then leads to   *)
(* the test, in _cleanup the wait has failed.                              *)
CutShort ==
    CASE Top = "sleep" -> Goto("check")
      [] Top = "waitall" -> Goto("error")
      [] OTHER -> stack

RunTrap ==
    /\ exit = Running /\ ~Untrapped
    /\ LET signal == IF "HUP" \in pending THEN "HUP" ELSE "TERM"
       IN  /\ pending' = pending \ {signal}
           /\ \E after \in {stack, CutShort} :
                  stack' = Append(after, IF signal = "HUP" THEN "reload" ELSE "cleanup")
    /\ UNCHANGED <<environment, service, telnetd, mainPid, lastPid, trapped, exit, budgets>>

-----------------------------------------------------------------------------
(* The processes. *)

(* prpd loads the file and serves it, or ends at once. A ticker with an    *)
(* interval that is not positive ends the process too.                     *)
Serves(f) == \E c \in Load(f, env) : c.ticks

ServiceLoads(p) ==
    /\ exit = Running /\ Is(p, "forked")
    /\ service' = [service EXCEPT ![p] =
           IF Serves(file) THEN [st |-> "serving", conf |-> Load(file, env), edition |-> edits]
           ELSE [Free EXCEPT !.st = "zombie"]]
    /\ UNCHANGED <<environment, telnetd, stack, mainPid, lastPid, trapped, pending, exit, budgets>>

(* It stops on SIGTERM. *)
ServiceStops(p) ==
    /\ exit = Running /\ Is(p, "termed")
    /\ service' = [service EXCEPT ![p] = [Free EXCEPT !.st = "zombie"]]
    /\ UNCHANGED <<environment, telnetd, stack, mainPid, lastPid, trapped, pending, exit, budgets>>

ServiceCrashes(p) ==
    /\ exit = Running /\ service[p].st \in {"forked", "serving"} /\ crashes < MaxCrashes
    /\ service' = [service EXCEPT ![p] = [Free EXCEPT !.st = "zombie"]]
    /\ crashes' = crashes + 1
    /\ UNCHANGED <<environment, telnetd, stack, mainPid, lastPid, trapped, pending, exit, hups, terms>>

TelnetdStops ==
    /\ exit = Running /\ telnetd.st = "termed"
    /\ telnetd' = [telnetd EXCEPT !.st = "zombie"]
    /\ UNCHANGED <<environment, service, stack, mainPid, lastPid, trapped, pending, exit, budgets>>

-----------------------------------------------------------------------------
(* The operator. A signal that comes before its trap is set is lost, as it *)
(* is for the first process of a container.                                *)

Hup ==
    /\ exit = Running /\ trapped /\ hups < MaxHups
    /\ pending' = pending \cup {"HUP"} /\ hups' = hups + 1
    /\ UNCHANGED <<environment, service, telnetd, stack, mainPid, lastPid, trapped, exit, terms, crashes>>

Term ==
    /\ exit = Running /\ trapped /\ terms < MaxTerms
    /\ pending' = pending \cup {"TERM"} /\ terms' = terms + 1
    /\ UNCHANGED <<environment, service, telnetd, stack, mainPid, lastPid, trapped, exit, hups, crashes>>

Edit ==
    /\ exit = Running /\ edits < MaxEdits
    /\ file' \in Files /\ edits' = edits + 1
    /\ UNCHANGED <<env, service, telnetd, stack, mainPid, lastPid, trapped, pending, exit, budgets>>

-----------------------------------------------------------------------------
Init ==
    /\ env \in Envs /\ file = Image /\ edits = 0
    /\ service = [p \in Pids |-> Free]
    /\ telnetd = [Free EXCEPT !.st = "serving"]
    /\ stack = <<"trap", "fork">>
    /\ mainPid = NoPid /\ lastPid = NoPid /\ trapped = FALSE
    /\ pending = {} /\ exit = Running
    /\ hups = 0 /\ terms = 0 /\ crashes = 0

Shell ==
    \/ Fork \/ SetPid \/ SetTraps \/ Sleep \/ Check
    \/ Reload \/ ReloadWait \/ Cleanup \/ WaitAll \/ ExitOnError
    \/ RunTrap

Services == TelnetdStops \/ \E p \in Pids : ServiceLoads(p) \/ ServiceStops(p)

Next ==
    \/ Shell \/ Services
    \/ \E p \in Pids : ServiceCrashes(p)
    \/ Hup \/ Term \/ Edit

Spec == Init /\ [][Next]_vars

(* The shell and the processes run. *)
FairSpec ==
    /\ Spec /\ WF_vars(Shell) /\ WF_vars(TelnetdStops)
    /\ \A p \in Pids : WF_vars(ServiceLoads(p)) /\ WF_vars(ServiceStops(p))

-----------------------------------------------------------------------------
Serving(p, v) == Is(p, "serving") /\ service[p].edition >= v
ShutdownRequested == terms > 0

(* A SIGHUP is not lost, however it falls between the commands of the loop *)
(* and of other handlers: a service comes up that has loaded the file as   *)
(* it was then or later, unless that file is refused or the container is   *)
(* told to stop.                                                           *)
ReloadHonoured ==
    \A v \in 0..MaxEdits :
        "HUP" \in pending /\ edits = v ~>
            \/ \E p \in Pids : Serving(p, v)
            \/ ~Serves(file) \/ ShutdownRequested

(* A service that has crashed, or has refused a file that was then         *)
(* corrected, is up again in the end without any signal.                   *)
ServiceRecovers ==
    []<>((\E p \in Pids : Is(p, "serving")) \/ ~Serves(file) \/ ShutdownRequested)

(* The shell is in its loop and knows every service there is. *)
InLoop == Len(stack) = 1 /\ trapped /\ \A p \in Pids \ {mainPid} : Is(p, "free")

(* SIGTERM that finds the shell in its loop, with no SIGHUP at the same    *)
(* time or later, ends the container with status 0 once the service has    *)
(* ended: "graceful shutdown of all child processes".                      *)
TermEndsServices ==
    "TERM" \in pending /\ "HUP" \notin pending /\ hups = MaxHups /\ InLoop ~>
        exit = 0 /\ \A p \in Pids : Is(p, "free")
=============================================================================
