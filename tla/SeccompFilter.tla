--------------------------- MODULE SeccompFilter ---------------------------
(***************************************************************************)
(* The classic-BPF program that build_filter of seccomp.py assembles, and  *)
(* the kernel that runs it, instruction by instruction, over a system call *)
(* of a monitored child.                                                   *)
(*                                                                         *)
(* A word is the set of its named bits: a number is the set of its name, a *)
(* flag word the set of its flags, so that JEQ compares sets and JSET      *)
(* intersects them.  "other" stands for every bit, number or option that   *)
(* the program does not name; as it tests nothing else of a word, these    *)
(* are all words.  An argument is the lower half of its register, which is *)
(* all that the program, and the int parameter in the kernel, looks at.    *)
(***************************************************************************)
EXTENDS Naturals, Sequences, SequencesExt

VARIABLES
  syscall,  \* the system call: architecture, number and argument words
  at,       \* the next instruction
  acc,      \* the accumulator
  verdict   \* "none" (yet), "allow" or "notify"

filterVars == <<syscall, at, acc, verdict>>

\* NOTIFIED_SYSCALLS: unconditional, or gated on one argument.
Always(name) == [name |-> name, gate |-> "always", arg |-> 0, of |-> {}]
NotifiedSyscalls ==
  [i \in 1..15 |-> Always(<<"execve", "execveat", "ptrace", "mount", "umount2",
     "unshare", "setns", "chroot", "pivot_root", "setuid", "setgid", "setreuid",
     "setregid", "setresuid", "setresgid">>[i])]
  \o << [name |-> "openat", gate |-> "flags", arg |-> 2,
         of |-> {"O_WRONLY", "O_RDWR", "O_CREAT"}],
        [name |-> "open", gate |-> "flags", arg |-> 1,
         of |-> {"O_WRONLY", "O_RDWR", "O_CREAT"}],
        Always("creat"), Always("openat2"),
        [name |-> "prctl", gate |-> "equals", arg |-> 0,
         of |-> {"DUMPABLE", "KEEPCAPS", "SECCOMP", "CAPBSET_DROP", "SECUREBITS",
                 "NO_NEW_PRIVS", "CAP_AMBIENT"}] >>

Unconditional == SelectSeq(NotifiedSyscalls, LAMBDA s : s.gate = "always")
Conditional == SelectSeq(NotifiedSyscalls, LAMBDA s : s.gate # "always")

-----------------------------------------------------------------------------
(* Assembly.  An instruction is <<op, k, label if true, label if false>>; a  *)
(* label definition is an element of its own that assembles to nothing.      *)

Ld(k) == <<"ld", k, "", "">>
Jump(op, k, jt, jf) == <<op, k, jt, jf>>
Ja(target) == <<"ja", {}, target, "">>
Ret(k) == <<"ret", k, "", "">>
Label(name) == <<"label", name, "", "">>
Check(s) == <<"ck", s.name>>

\* Mutant: flags are compared for equality.
FaultyBlock(s) ==
  LET vals == SetToSeq(s.of)
  IN <<Label(Check(s)), Ld(<<"arg", s.arg>>)>> \o
       (IF s.gate = "flags" THEN <<Jump("jeq", s.of, "notify", "allow")>>
        ELSE [j \in 1..Len(vals) |->
                Jump("jeq", {vals[j]}, "notify",
                     IF j = Len(vals) THEN "allow" ELSE "fall")])

\* The test of a conditional syscall's argument.
Block(s) ==
  LET vals == SetToSeq(s.of)
  IN <<Label(Check(s)), Ld(<<"arg", s.arg>>)>> \o
       (IF s.gate = "flags" THEN <<Jump("jset", s.of, "notify", "allow")>>
        ELSE [j \in 1..Len(vals) |->
                Jump("jeq", {vals[j]}, "notify",
                     IF j = Len(vals) THEN "allow" ELSE "fall")])

Source ==
  <<Ld(<<"arch">>), Jump("jeq", {"x86_64"}, "fall", "allow"), Ld(<<"nr">>)>>
  \o [i \in 1..Len(Unconditional) |->
        Jump("jeq", {Unconditional[i].name}, "notify", "fall")]
  \o [i \in 1..Len(Conditional) |->
        Jump("jeq", {Conditional[i].name}, Check(Conditional[i]), "fall")]
  \o <<Ja("allow")>>
  \o FlattenSeq([i \in 1..Len(Conditional) |-> Block(Conditional[i])])
  \o <<Label("allow"), Ret("allow"), Label("notify"), Ret("notify")>>

IsLabel(ins) == ins[1] = "label"
Code(src) == SelectSeq(src, LAMBDA ins : ~IsLabel(ins))

\* The number of instructions before the definition of the label.
Position(src, name) ==
  LET def == CHOOSE i \in DOMAIN src : IsLabel(src[i]) /\ src[i][2] = name
  IN Len(Code(SubSeq(src, 1, def)))

\* The distance from the instruction after the i-th one.
Offset(src, i, name) ==
  IF name = "fall" THEN 0 ELSE Position(src, name) - i

\* _Assembler.assemble
Assembled(src) ==
  LET code == Code(src)
  IN [i \in 1..Len(code) |->
        LET op == code[i][1]
            jt == IF op \in {"jeq", "jset", "ja"} THEN Offset(src, i, code[i][3]) ELSE 0
            jf == IF op \in {"jeq", "jset"} THEN Offset(src, i, code[i][4]) ELSE 0
        IN [op |-> op, k |-> code[i][2], jt |-> jt, jf |-> jf]]

BuildFilter == Assembled(Source)

-----------------------------------------------------------------------------
(* System calls *)

Words == SUBSET {"O_WRONLY", "O_RDWR", "O_CREAT", "other"}
\* The options of prctl that change privilege or the inspection of a process.
PrivilegeOptions == {"DUMPABLE", "KEEPCAPS", "SECCOMP", "CAPBSET_DROP", "SECUREBITS",
                     "NO_NEW_PRIVS", "CAP_AMBIENT"}

\* The arguments of which one has a value and the others are all alike.
Arguments(values) ==
  {[n \in 0..2 |-> IF n = i THEN v ELSE w] : i \in 0..2, v \in values, w \in {{}, {"other"}}}

SysCalls ==
  [arch : {"x86_64", "other"},
   nr : {"execve", "execveat", "ptrace", "mount", "umount2", "unshare", "setns", "chroot",
         "pivot_root", "setuid", "setgid", "setreuid", "setregid", "setresuid", "setresgid",
         "openat", "open", "creat", "openat2", "other"},
   args : Arguments(Words)]
  \cup [arch : {"x86_64", "other"}, nr : {"prctl"}, args : Arguments({{o} : o \in PrivilegeOptions})]

-----------------------------------------------------------------------------
(* The kernel *)

FilterInit ==
  /\ syscall \in SysCalls
  /\ at = 1 /\ acc = {} /\ verdict = "none"

Field(k) ==
  CASE k[1] = "arch" -> {syscall.arch}
    [] k[1] = "nr" -> {syscall.nr}
    [] OTHER -> syscall.args[k[2]]

\* The next instruction is of one of these kinds.
Fetch(op) == verdict = "none" /\ BuildFilter[at].op = op
JumpsBy(distance) == at' = at + 1 + distance /\ UNCHANGED <<syscall, acc, verdict>>

Load ==
  /\ Fetch("ld")
  /\ acc' = Field(BuildFilter[at].k)
  /\ at' = at + 1
  /\ UNCHANGED <<syscall, verdict>>

JumpAlways == Fetch("ja") /\ JumpsBy(BuildFilter[at].jt)

JumpEqual ==
  /\ Fetch("jeq")
  /\ LET ins == BuildFilter[at] IN JumpsBy(IF acc = ins.k THEN ins.jt ELSE ins.jf)

JumpSet ==
  /\ Fetch("jset")
  /\ LET ins == BuildFilter[at] IN JumpsBy(IF acc \cap ins.k # {} THEN ins.jt ELSE ins.jf)

Return ==
  /\ Fetch("ret")
  /\ verdict' = BuildFilter[at].k
  /\ UNCHANGED <<syscall, at, acc>>

FilterNext == Load \/ JumpAlways \/ JumpEqual \/ JumpSet \/ Return
FilterSpec == FilterInit /\ [][FilterNext]_filterVars

-----------------------------------------------------------------------------
(* What is to be notified: ADR 0006, and the comments on the table and on   *)
(* the prctl options.                                                      *)

Execution == {"execve", "execveat"}
Identity == {"setuid", "setgid", "setreuid", "setregid", "setresuid", "setresgid"}
Isolation == {"unshare", "setns", "mount", "umount2", "chroot", "pivot_root"}
PointerFlags == {"creat", "openat2"}   \* recorded without a look at the flags

ForWriting(word) == {"O_WRONLY", "O_RDWR", "O_CREAT"} \cap word # {}

Interesting ==
  /\ syscall.arch = "x86_64"
  /\ \/ syscall.nr \in Execution \cup Identity \cup Isolation \cup PointerFlags \cup {"ptrace"}
     \/ syscall.nr = "openat" /\ ForWriting(syscall.args[2])
     \/ syscall.nr = "open" /\ ForWriting(syscall.args[1])
     \/ syscall.nr = "prctl" /\ \E o \in PrivilegeOptions : syscall.args[0] = {o}

\* The filter notifies exactly the execution, privilege, namespace, mount and
\* debugger calls, the opens that write and the prctl options that change
\* privilege, of the native architecture, for every value of the arguments; it
\* never runs off its end, and the distance of a conditional jump fits into its byte
\* (build_filter and _Assembler.assemble).
FilterExact ==
  /\ verdict # "none" => (verdict = "notify" <=> Interesting)
  /\ at \in DOMAIN BuildFilter
  /\ BuildFilter[at].op # "ja" => {BuildFilter[at].jt, BuildFilter[at].jf} \subseteq 0..255
=============================================================================
