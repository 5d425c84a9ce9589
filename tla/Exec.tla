-------------------------------- MODULE Exec --------------------------------
(***************************************************************************)
(* Running a program: exec (exec.c), the mappings it makes (mmap, mprotect *)
(* and task_unmap of mm/vma.c) and the user stack that task_prepare makes  *)
(* and the reaper frees (sched.c).  All tasks share one page directory, in *)
(* which the kernel's own vmalloc buffers come and go meanwhile.           *)
(* Addresses below VIRT_OFFSET are the user's; page P holds the addresses  *)
(* P * PAGE .. P * PAGE + PAGE - 1.                                        *)
(***************************************************************************)
EXTENDS Integers, Sequences, SequencesExt, FiniteSets

CONSTANTS
    Programs,       \* [kind, segs]: segs is a sequence of [addr, len], in bytes
    PAGE, TABLE,    \* bytes of a page, entries of a page table
    UserPages,      \* pages below VIRT_OFFSET
    KernelPages,    \* pages of the vmalloc range
    StackPages      \* 2 * TASK_STACK_PAGES

Pages == 0..UserPages + KernelPages - 1
Kernel == UserPages..UserPages + KernelPages - 1
Tables == 0..(UserPages + KernelPages - 1) \div TABLE
VA_PD_IDX(va) == va \div TABLE

\* First page, and the page after the last, that a range of bytes touches.
PAGE_ROUND_DN(x) == x \div PAGE
PAGE_ROUND_UP(x) == (x + PAGE - 1) \div PAGE
SegPages(s) == PAGE_ROUND_DN(s.addr)..PAGE_ROUND_UP(s.addr + s.len) - 1

Segments(p) == {SegPages(p.segs[k]) : k \in DOMAIN p.segs}

\* The loadable segments of a program are in its half of the address space and
\* share no page (the linker gives each its own).
ExecAssumption ==
    /\ PAGE \in Nat \ {0} /\ TABLE \in Nat \ {0} /\ UserPages % TABLE = 0
    /\ \A p \in Programs :
          /\ p.kind \in {"elf", "other", "unreadable"}
          /\ \A k \in DOMAIN p.segs : PAGE_ROUND_UP(p.segs[k].addr + p.segs[k].len) < UserPages
          /\ \A j, k \in DOMAIN p.segs : j # k => SegPages(p.segs[j]) \cap SegPages(p.segs[k]) = {}

VARIABLES
    pde, pte,       \* flags of each directory and table entry: P, W, U
    vmas,           \* of the task: [start, size] in pages
    stack,          \* pages of its user stack
    leaked,         \* pages of user stacks that nobody will free
    lost,           \* pages of programs whose areas nobody knows any more
    kbuf,           \* pages of other vmalloc buffers of the kernel
    task,           \* the new task: none, runnable, stopping, reaped (its struct
                    \* is freed) or reused (the struct is something else by now)
    prog, pc, i     \* exec: the program, where it is, segments loaded

vars == <<pde, pte, vmas, stack, leaked, lost, kbuf, task, prog, pc, i>>

NoProgram == [kind |-> "other", segs |-> <<>>]

Init ==
    /\ pde = [p \in Tables |-> {}] /\ pte = [v \in Pages |-> {}]
    /\ vmas = <<>> /\ stack = {} /\ leaked = {} /\ lost = {} /\ kbuf = {}
    /\ task = "none" /\ prog = NoProgram /\ pc = "idle" /\ i = 0

(* ----------------------- the directory and its tables ------------------- *)

\* A mapping is [pde, pte, ok]: ok is FALSE once an assertion has failed or a
\* call has returned an error.
Mapping == [pde |-> pde, pte |-> pte, ok |-> TRUE]

vm_map(m, range) ==
    LET new(p) == p \in {VA_PD_IDX(v) : v \in range} /\ "P" \notin m.pde[p]
        old(v) == IF new(VA_PD_IDX(v)) THEN {} ELSE m.pte[v]
    IN  [m EXCEPT !.pde = [p \in Tables |-> IF new(p) THEN {"P", "W"} ELSE m.pde[p]],
                  !.pte = [v \in Pages |-> IF v \in range /\ "P" \notin old(v)
                                           THEN {"P", "W"} ELSE old(v)]]

vm_unmap_KeepUser(m, start, size) ==
    LET range == start..start + size - 1
    IN  [pde |-> m.pde, pte |-> [v \in Pages |-> IF v \in range THEN m.pte[v] \ {"P"} ELSE m.pte[v]],
         ok |-> m.ok]

\* Every page is asserted to be present; then empty tables are swept, from that
\* of the first page to the one before that of the page after the last.
vm_unmap(m, start, size) ==
    LET range == start..start + size - 1
        after == [v \in Pages |-> IF v \in range THEN {} ELSE m.pte[v]]
        empty(p) == \A v \in Pages : VA_PD_IDX(v) = p => after[v] = {}
        swept == {p \in VA_PD_IDX(start)..VA_PD_IDX(start + size) - 1 : empty(p)}
    IN  [pde |-> [p \in Tables |-> IF p \in swept THEN {"W"} ELSE m.pde[p]],
         pte |-> after,
         ok |-> m.ok /\ \A v \in range : "P" \in m.pde[VA_PD_IDX(v)] /\ "P" \in m.pte[v]]

Flags_NoUser(prot) ==
    (IF "READ" \in prot THEN {"P"} ELSE {}) \cup (IF "WRITE" \in prot THEN {"W"} ELSE {})

\* PROT_USR is PROT_READ|PROT_WRITE, so that any access asked for makes the
\* page the user's.
PROT_USR == {"READ", "WRITE"}
Flags(prot) ==
    (IF "READ" \in prot THEN {"P"} ELSE {}) \cup (IF "WRITE" \in prot THEN {"W"} ELSE {})
        \cup (IF prot \cap PROT_USR # {} THEN {"U"} ELSE {})

\* A page whose table is missing, or one that is not present and is to be
\* writable, is an error: the pages before it have changed.
ProtectPage(prot, m, v) ==
    IF ~m.ok \/ "P" \notin m.pde[VA_PD_IDX(v)] THEN [m EXCEPT !.ok = FALSE]
    ELSE LET d == [m EXCEPT !.pde[VA_PD_IDX(v)] = Flags(prot)]
         IN  IF "P" \notin m.pte[v] /\ "WRITE" \in prot THEN [d EXCEPT !.ok = FALSE]
             ELSE [d EXCEPT !.pte[v] = Flags(prot)]

mprotect(m, start, size, prot) ==
    FoldLeft(LAMBDA x, k : ProtectPage(prot, x, start + k - 1), m, [k \in 1..size |-> k])

Install(m) == pde' = m.pde /\ pte' = m.pte

(* ---------------------------------- exec -------------------------------- *)

Free == Kernel \ (stack \cup leaked \cup kbuf)

\* What task_prepare does for a user task: two pages from vmalloc for its stack,
\* made the user's.
UserStack(at) ==
    mprotect(vm_map(Mapping, at..at + StackPages - 1), at, StackPages, {"WRITE"} \cup PROT_USR)

\* exec, as far as task_prepare.
exec(p, at) ==
    /\ pc = "idle"
    /\ at..at + StackPages - 1 \subseteq Free
    /\ Install(UserStack(at))
    /\ pc' = IF UserStack(at).ok THEN "load" ELSE "assert"
    /\ stack' = at..at + StackPages - 1
    /\ prog' = p /\ i' = 0
    /\ UNCHANGED <<vmas, leaked, lost, kbuf, task>>

\* elf_load could not read the file: exec returns, and leaves the task behind.
elf_load_error ==
    /\ pc = "load" /\ prog.kind = "unreadable"
    /\ pc' = "idle" /\ prog' = NoProgram
    /\ leaked' = leaked \cup stack /\ stack' = {}
    /\ UNCHANGED <<pde, pte, vmas, lost, kbuf, task, i>>

\* load_segment: mmap of a segment, whatever its own protection.  A segment
\* that cannot be read halts the machine.
mmap ==
    /\ pc = "load" /\ prog.kind = "elf" /\ i < Len(prog.segs)
    /\ LET s     == prog.segs[i + 1]
           start == PAGE_ROUND_DN(s.addr)
           size  == PAGE_ROUND_UP(s.addr + s.len) - start
       IN  /\ Install(mprotect(vm_map(Mapping, start..start + size - 1), start, size,
                               {"READ", "WRITE"} \cup PROT_USR))
           /\ vmas' = Append(vmas, [start |-> start, size |-> size])
    /\ i' = i + 1
    /\ pc' \in {"load", "halt"}
    /\ UNCHANGED <<stack, leaked, lost, kbuf, task, prog>>

\* All loaded, or not an ELF file, or one with headers of another size, which
\* elf_load answers with 1 and exec takes for success: the task may run.
to_runqueue ==
    /\ pc = "load" /\ prog.kind # "unreadable"
    /\ prog.kind = "elf" => i = Len(prog.segs)
    /\ pc' = "queued" /\ task' = "runnable"
    /\ UNCHANGED <<pde, pte, vmas, stack, leaked, lost, kbuf, prog, i>>

Reaped == task \in {"reaped", "reused"}

\* wait_tid: waits, or finds no task when it has already been reaped.
wait_tid ==
    /\ pc = "queued"
    /\ pc' = IF Reaped THEN "unmap" ELSE "waiting"
    /\ UNCHANGED <<pde, pte, vmas, stack, leaked, lost, kbuf, task, prog, i>>

Woken ==
    /\ pc = "waiting" /\ Reaped
    /\ pc' = "unmap"
    /\ UNCHANGED <<pde, pte, vmas, stack, leaked, lost, kbuf, task, prog, i>>

AreaPages(a) == a.start..a.start + a.size - 1
VmaPages == UNION {AreaPages(vmas[k]) : k \in DOMAIN vmas}

task_unmap_First ==
    /\ pc = "unmap" /\ task = "reaped"
    /\ LET m == IF vmas = <<>> THEN Mapping ELSE vm_unmap(Mapping, vmas[1].start, vmas[1].size)
       IN  Install(m) /\ pc' = IF m.ok THEN "idle" ELSE "assert"
    /\ lost' = lost \ VmaPages
    /\ vmas' = <<>> /\ task' = "none" /\ prog' = NoProgram
    /\ UNCHANGED <<stack, leaked, kbuf, i>>

\* The struct of the task has been freed by now (kfree writes to its first
\* word): the list of areas is still what it was ...
task_unmap ==
    /\ pc = "unmap" /\ task = "reaped"
    /\ LET m == FoldLeft(LAMBDA x, a : vm_unmap(x, a.start, a.size), Mapping, vmas)
       IN  Install(m) /\ pc' = IF m.ok THEN "idle" ELSE "assert"
    /\ lost' = lost \ VmaPages
    /\ vmas' = <<>> /\ task' = "none" /\ prog' = NoProgram
    /\ UNCHANGED <<stack, leaked, kbuf, i>>

\* ... unless somebody else has the chunk: the list is that of a task without
\* areas, or its head is zero, and the caller of exec dies of it.  Either way
\* the areas of the program stay.
task_unmap_reused ==
    /\ pc = "unmap" /\ task = "reused"
    /\ lost' = lost \cup VmaPages
    /\ vmas' = <<>> /\ task' = "none" /\ prog' = NoProgram /\ pc' = "idle"
    /\ UNCHANGED <<pde, pte, stack, leaked, kbuf, i>>

(* ----------------------------- the others ------------------------------- *)

\* The task exits, or faults and is killed.
task_kill ==
    /\ task = "runnable" /\ task' = "stopping"
    /\ UNCHANGED <<pde, pte, vmas, stack, leaked, lost, kbuf, prog, pc, i>>

Lowest(S) == CHOOSE v \in S : \A w \in S : v <= w

\* The user stack, then the struct itself.
reaper ==
    /\ task = "stopping" /\ task' = "reaped"
    /\ Install(vm_unmap(Mapping, Lowest(stack), StackPages))
    /\ stack' = {}
    /\ UNCHANGED <<vmas, leaked, lost, kbuf, prog, pc, i>>

\* Another kmalloc is given the chunk, zeroed.
Reuse ==
    /\ task = "reaped" /\ task' = "reused"
    /\ UNCHANGED <<pde, pte, vmas, stack, leaked, lost, kbuf, prog, pc, i>>

\* Some task gets or frees a page of the kernel's.
KernelAlloc(v) ==
    /\ v \in Free
    /\ Install(vm_map(Mapping, {v}))
    /\ kbuf' = kbuf \cup {v}
    /\ UNCHANGED <<vmas, stack, leaked, lost, task, prog, pc, i>>

KernelFree(v) ==
    /\ v \in kbuf
    /\ Install(vm_unmap(Mapping, v, 1))
    /\ kbuf' = kbuf \ {v}
    /\ UNCHANGED <<vmas, stack, leaked, lost, task, prog, pc, i>>

\* An assertion that fails ends in halt, which nothing gets past.
Next ==
    /\ pc \notin {"halt", "assert"}
    /\ \/ \E p \in Programs, at \in Kernel : exec(p, at)
       \/ elf_load_error \/ mmap \/ to_runqueue \/ wait_tid \/ Woken
       \/ task_unmap \/ task_unmap_reused \/ task_kill \/ reaper \/ Reuse
       \/ \E v \in Kernel : KernelAlloc(v) \/ KernelFree(v)

Spec == Init /\ [][Next]_vars

-----------------------------------------------------------------------------

All == {"P", "W", "U"}
Accessible(v) == pde[VA_PD_IDX(v)] = All /\ pte[v] = All

\* A program that runs has its segments and its stack, every page present,
\* writable and the user's, in the directory as well as in the tables:
\* mprotect of one mapping, or vm_unmap of a neighbour, takes nothing from
\* another that shares its page table.
RunsMapped ==
    task = "runnable" =>
        /\ \A v \in stack : Accessible(v)
        /\ prog.kind = "elf" => \A s \in Segments(prog) : \A v \in s : Accessible(v)

\* User mode reaches the pages of programs, past ones included, and of user
\* stacks and no other: a page that was a stack loses the user's flag before it
\* is a kernel buffer.
UserReachesOwn ==
    \A v \in Pages : "U" \in pte[v] => v \in stack \cup leaked \cup VmaPages \cup lost

\* When exec has returned no page of the user's half is left mapped, so that
\* the next program's are new and zeroed (vm_map takes a present one as it is).
\* The one exception is a program whose task had its struct reused between
\* reaper and task_unmap: its pages stay until a program maps the same ones.
NothingLeft == pc = "idle" => {v \in 0..UserPages - 1 : pte[v] # {}} = lost

=============================================================================
