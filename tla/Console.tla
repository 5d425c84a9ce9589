------------------------------ MODULE Console -------------------------------
(***************************************************************************)
(* The console's menus (console.c) and the file shell's loop (vfs.c):      *)
(* which task reads the keyboard.  A submenu is a call in the same task; a *)
(* CMD is a task of its own, waited for; a JOB is one that is not.  The    *)
(* shell runs programs, which have the keyboard as their input, and waits  *)
(* for them.  init starts the console again whenever it ends.              *)
(***************************************************************************)
EXTENDS Integers, Sequences, FiniteSets, Functions

CONSTANTS
    Tasks,          \* tasks that can exist at once beside init
    Cmds,           \* menu |-> its commands: [key, kind, fn]
    Keys,           \* keys pressed
    Results,        \* what a command other than a menu may return
    MaxLeaks        \* bound: handles that nobody will close

Menus == DOMAIN Cmds
Init_ == "init"

get_shortcut(cmd) == cmd.key

\* No two commands of a menu have the same key.
check_duplicates(m) ==
    \A i, j \in DOMAIN Cmds[m] :
        get_shortcut(Cmds[m][i]) = get_shortcut(Cmds[m][j]) => i = j
ConsoleAssumption == "console" \in Menus /\ \A m \in Menus : check_duplicates(m)

VARIABLES
    task,           \* task |-> [st, stack, on, ret], the innermost call first
    handles,        \* open handles of /dev/kbd
    leaked,         \* of them, those of nobody
    panicked

vars == <<task, handles, leaked, panicked>>

Free == [st |-> "free", stack |-> <<>>, on |-> Init_, ret |-> 0]
New(fn) == [Free EXCEPT !.st = "run", !.stack = <<[fn |-> fn, at |-> "open"]>>]

Init ==
    /\ task = [t \in Tasks \cup {Init_} |->
                  IF t = Init_ THEN [New("init") EXCEPT !.stack[1].at = "loop"] ELSE Free]
    /\ handles = 0 /\ leaked = 0 /\ panicked = FALSE

Top(t) == Head(task[t].stack)
At(t, place) == task[t].st = "run" /\ Top(t).at = place /\ ~panicked
Reads(fn) == fn \in Menus \cup {"vfs_debug_shell"}
Program(k) == k.st # "free" /\ k.stack[1].fn = "program"
Go(k, place) == [k EXCEPT !.stack[1].at = place]

\* The task k after its innermost call has returned r: back in the menu, or at
\* its end (task_kill).
Returned(k, r) ==
    IF Len(k.stack) = 1 THEN [k EXCEPT !.st = "stopping", !.ret = r]
    ELSE [k EXCEPT !.stack = Tail(@)]

\* A menu or shell whose command has returned r, and which closes its handle.
Leaves(k, r) ==
    \/ k.stack[1].fn \in Menus /\ r = -1
    \/ k.stack[1].fn = "vfs_debug_shell" /\ r = 1
After(k, r) == IF Leaves(k, r) THEN Returned(k, 0)
               ELSE Go(k, IF k.stack[1].fn = "init" THEN "loop" ELSE "read")

\* cmd_enter_menu and vfs_debug_shell, to their loops.
vfs_open_file(t) ==
    /\ At(t, "open") /\ Reads(Top(t).fn)
    /\ \/ /\ task' = [task EXCEPT ![t] = Go(@, "read")]
          /\ handles' = handles + 1 /\ UNCHANGED leaked
       \/ /\ task' = [task EXCEPT ![t] = Returned(@, 1)]
          /\ UNCHANGED <<handles, leaked>>
       \/ /\ Top(t).fn = "vfs_debug_shell" /\ leaked < MaxLeaks
          /\ task' = [task EXCEPT ![t] = Returned(@, -12)]
          /\ handles' = handles + 1 /\ leaked' = leaked + 1
    /\ UNCHANGED panicked

\* Mutant: a command's task is not waited for.
cmd_run_task_NoWait(t, fn) ==
    /\ \/ \E u \in Tasks : task[u].st = "free" /\ task' = [task EXCEPT ![u] = New(fn)]
       \/ UNCHANGED task
    /\ UNCHANGED handles

\* task_create, which may fail; then wait_tid.
cmd_run_task(t, fn) ==
    /\ \/ \E u \in Tasks : /\ task[u].st = "free"
                           /\ task' = [task EXCEPT ![u] = New(fn),
                                                 ![t] = [Go(@, "wait_tid") EXCEPT !.on = u]]
       \/ UNCHANGED task
    /\ UNCHANGED handles

cmd_spawn_job(t, fn) ==
    /\ \/ \E u \in Tasks : task[u].st = "free" /\ task' = [task EXCEPT ![u] = New(fn)]
       \/ UNCHANGED task
    /\ UNCHANGED handles

\* A key in cmd_enter_menu's loop.  A command that returns -1 ends the menu.
Key(t, c) ==
    /\ At(t, "read") /\ Top(t).fn \in Menus
    /\ \E i \in DOMAIN Cmds[Top(t).fn] :
          LET cmd == Cmds[Top(t).fn][i] IN
          /\ get_shortcut(cmd) = c
          /\ \/ /\ cmd.kind = "FUNC"
                /\ \E r \in IF cmd.fn = "cmd_exit" THEN {-1} ELSE Results :
                      /\ task' = [task EXCEPT ![t] = After(@, r)]
                      /\ handles' = (IF Leaves(task[t], r) THEN handles - 1 ELSE handles)
             \/ /\ cmd.kind = "SUBMENU"
                /\ task' = [task EXCEPT ![t].stack = <<[fn |-> cmd.fn, at |-> "open"]>> \o @]
                /\ UNCHANGED handles
             \/ cmd.kind = "CMD" /\ cmd_run_task(t, cmd.fn)
             \/ cmd.kind = "JOB" /\ cmd_spawn_job(t, cmd.fn)
    /\ UNCHANGED <<leaked, panicked>>

\* wait_tid gives -1 for a task that is gone already.
wait_tid(t) ==
    /\ At(t, "wait_tid")
    /\ IF task[task[t].on].st = "free"
       THEN /\ task' = [task EXCEPT ![t] = After(@, -1)]
            /\ handles' = (IF Leaves(task[t], -1) THEN handles - 1 ELSE handles)
       ELSE /\ task' = [task EXCEPT ![t].st = "wait_task"]
            /\ UNCHANGED handles
    /\ UNCHANGED <<leaked, panicked>>

\* exec, from run_cmd: the new task has a handle of the keyboard, which is not
\* closed when the file cannot be loaded, and the task is waited for.
exec(t) ==
    /\ At(t, "read") /\ Top(t).fn = "vfs_debug_shell"
    /\ leaked + Cardinality({u \in Tasks : Program(task[u])}) < MaxLeaks
    /\ handles' = handles + 1
    /\ \/ leaked' = leaked + 1 /\ UNCHANGED task
       \/ /\ UNCHANGED leaked
          /\ \E u \in Tasks : /\ task[u].st = "free"
                              /\ task' = [task EXCEPT ![u] = Go(New("program"), "read"),
                                                    ![t] = [Go(@, "wait_tid") EXCEPT !.on = u]]
    /\ UNCHANGED panicked

\* Main returns, or the program is killed.
ProgramEnds(t) ==
    /\ At(t, "read") /\ Program(task[t])
    /\ \E r \in Results : task' = [task EXCEPT ![t] = Returned(@, r)]
    /\ UNCHANGED <<handles, leaked, panicked>>

\* The shell's "exit", and commands that were given wrongly.
vfs_debug_shell(t) ==
    /\ At(t, "read") /\ Top(t).fn = "vfs_debug_shell"
    /\ task' = [task EXCEPT ![t] = Returned(@, 0)]
    /\ handles' = handles - 1
    /\ UNCHANGED <<leaked, panicked>>

\* Any other function run by a CMD or a JOB.
Finish(t) ==
    /\ At(t, "open") /\ ~Reads(Top(t).fn)
    /\ \E r \in Results : task' = [task EXCEPT ![t] = Returned(@, r)]
    /\ UNCHANGED <<handles, leaked, panicked>>

\* All that have stopped are freed, the handles of programs unclosed, and their
\* waiters go on.
reaper ==
    LET gone == {t \in Tasks : task[t].st = "stopping"}
        woken == {t \in DOMAIN task : task[t].st = "wait_task" /\ task[t].on \in gone}
        r(t) == task[task[t].on].ret
    IN
    /\ gone # {} /\ ~panicked
    /\ task' = [t \in DOMAIN task |->
                   IF t \in gone THEN Free
                   ELSE IF t \in woken THEN After([task[t] EXCEPT !.st = "run"], r(t)) ELSE task[t]]
    /\ handles' = handles - Cardinality({t \in woken : Leaves(task[t], r(t))})
    /\ leaked' = leaked + Cardinality({t \in gone : Program(task[t])})
    /\ UNCHANGED panicked

\* init: the assertion fails when there is no task to be had.
init ==
    /\ At(Init_, "loop")
    /\ \/ \E u \in Tasks :
             /\ task[u].st = "free"
             /\ task' = [task EXCEPT ![u] = New("console"),
                                   ![Init_] = [Go(@, "wait_tid") EXCEPT !.on = u]]
             /\ UNCHANGED panicked
       \/ panicked' = TRUE /\ UNCHANGED task
    /\ UNCHANGED <<handles, leaked>>

Next ==
    \/ \E t \in DOMAIN task : \/ vfs_open_file(t) \/ wait_tid(t) \/ vfs_debug_shell(t) \/ Finish(t)
                              \/ exec(t) \/ ProgramEnds(t)
                              \/ \E c \in Keys : Key(t, c)
    \/ reaper \/ init

Spec == Init /\ [][Next]_vars

-----------------------------------------------------------------------------

\* Handles of a task's menus and shells, and of a program.
OpenIn(t) ==
    IF Program(task[t]) THEN 1
    ELSE Cardinality({i \in DOMAIN task[t].stack :
             Reads(task[t].stack[i].fn) /\ task[t].stack[i].at # "open" /\ task[t].st # "stopping"})

\* At most one task reads the keyboard, whatever is started, nested, fails or
\* ends in whatever order: keys are never split between two readers.  And
\* every menu and shell that was left has closed its handle: those open are
\* of the menus, shells and programs still there, but for those of programs
\* that ended or were not loaded, and of a shell that got no memory.
OneReader ==
    /\ Cardinality({t \in Tasks : task[t].st = "run" /\ Top(t).at = "read"}) <= 1
    /\ handles = FoldFunction(LAMBDA n, sum : n + sum, leaked, [t \in Tasks |-> OpenIn(t)])
=============================================================================
