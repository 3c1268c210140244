----------------------------- MODULE ToolSurface -----------------------------
(***************************************************************************)
(* The tool wrappers of server.py, each as a function of its call: the     *)
(* policy text it shows to Policy.check (probe), the arguments it audits   *)
(* (args), what the executor then does, where and as whom (runs), and the  *)
(* words of the caller that reach the executor (sees).  RelayRunner takes  *)
(* an operation for its own key; here that is checked of the wrappers.     *)
(* How long a call may take and how its output is returned is left out.    *)
(*                                                                         *)
(* A text is the sequence of its lines, a host list or a jump chain the    *)
(* sequence of its hosts, a typed text the sequence of its characters.     *)
(***************************************************************************)
EXTENDS Integers, Sequences, FiniteSets, SequencesExt

CONSTANTS
  Texts,        \* commands, scripts, environments and other free text
  Dirs, Files, Sizes,
  Specs,        \* what ssh_forward is asked to forward
  HostLists,
  Targets,      \* the target arguments of the single-host SSH tools
  MaxHosts,     \* the per-call cap of the host-list tools
  Inventory,    \* the operator's inventory, in order
  DefaultKnownHosts,  \* settings.ssh_known_hosts
  HostNames,    \* what _HOSTNAME_RE matches
  KeyTypes,     \* _ALLOWED_KEY_TYPES
  PendingMax,   \* _PENDING_MAX
  Typed,        \* what one session_send types
  Histories     \* what was typed into a session so far

ASSUME TextsAssumption ==
  /\ Texts \subseteq Seq(STRING) /\ Specs \subseteq Seq(STRING)
  /\ HostLists \subseteq Seq(STRING)
  /\ \A t \in Targets : t.host \in STRING /\ t.jump \in Seq(STRING)
ASSUME TypedAssumption ==
  /\ PendingMax \in Nat \ {0}
  /\ Typed \subseteq Seq(STRING) /\ Histories \subseteq Seq(STRING)

\* Inventory.resolve: an alias of the inventory, or the host itself.
Resolve(host) ==
  IF \E i \in DOMAIN Inventory : Inventory[i].name = host
  THEN Inventory[CHOOSE i \in DOMAIN Inventory : Inventory[i].name = host]
  ELSE [name |-> host, user |-> "", port |-> 0, key_path |-> "", jump |-> <<>>,
        known_hosts |-> ""]

-----------------------------------------------------------------------------
(* What the wrappers share *)

Or(value, unset, other) == IF value = unset THEN other ELSE value
Lower(mode) == IF mode = "STRICT" THEN "strict" ELSE mode
Words(texts) == UNION {ToSet(t) : t \in texts}

\* effective_known_hosts: the mode the audit record states.
EffectiveKnownHosts(t) ==
  Lower(Or(t.known_hosts, "", Or(Resolve(t.host).known_hosts, "", DefaultKnownHosts)))

\* ssh_target_audit, with the host every caller of it puts in front.
SshTargetAudit(t) ==
  <<t.host, t.user, t.port, t.key_path, t.jump, EffectiveKnownHosts(t)>>

\* SshPool.connect: what is dialled, as whom and how it is verified.
Terms(t) ==
  LET spec == Resolve(t.host)
  IN [host |-> t.host,
      user |-> Or(t.user, "", spec.user),
      port |-> Or(t.port, 0, spec.port),
      key_path |-> Or(t.key_path, "", spec.key_path),
      jump |-> Or(t.jump, <<>>, spec.jump),
      mode |-> Lower(Or(Or(t.known_hosts, "", spec.known_hosts), "", DefaultKnownHosts))]
PlainTerms(host) ==
  Terms([host |-> host, user |-> "", port |-> 0, key_path |-> "", known_hosts |-> "",
         jump |-> <<>>])

\* Mutant: the jump chain is left out of the probe.
FaultyWithJump(text, jump) == text
\* _with_jump: the jump chain is dialled before the destination.
WithJump(text, jump) == text \o jump

(* The policy texts.  The canonical addresses _with_canonical_ips appends only *)
(* add words and are left out.                                                 *)
PolicyTextShell(command, stdin, env_json) == command \o stdin \o env_json
PolicyTextSsh(host, command, jump) == WithJump(command \o <<host>>, jump)
PolicyTextSshFanout(hosts, command) == command \o hosts
PolicyTextHosts(hosts) == hosts
PolicyTextSessionSend(data, pending) == pending \o data
PolicyTextSshUpload(host, local, remote, jump) ==
  WithJump(<<"upload", local, host, remote>>, jump)
PolicyTextSshDownload(host, remote, local, jump) ==
  WithJump(<<"download", host, remote, local>>, jump)
PolicyTextSshForward(spec, host, jump) == WithJump(<<"forward">> \o spec, jump) \o <<host>>

\* target_names: the hosts of the list, or the inventory.
TargetNames(hosts) == Or(hosts, <<>>, [i \in DOMAIN Inventory |-> Inventory[i].name])

\* Mutant: the arguments alone.
FaultyConfirmOpKey(call) == call.args
\* _confirm_op_key: the policy text and every audited argument.
ConfirmOpKey(call) == <<call.probe, call.args>>

-----------------------------------------------------------------------------
(* The tools with a policy text *)

ShellExec(c) ==
  [probe |-> PolicyTextShell(c.command, c.stdin, c.env_json),
   args |-> <<c.command, c.cwd, c.use_shell, c.stdin, c.env_json>>,
   runs |-> [stdin |-> c.stdin, cwd |-> c.cwd, shell |-> c.use_shell,
             argv |-> c.command, env |-> c.env_json],
   sees |-> Words({c.command, c.stdin, c.env_json})]
ShellExecCalls ==
  [command : Texts, stdin : Texts, env_json : Texts, cwd : Dirs, use_shell : BOOLEAN]

ShellScript(c) ==
  [probe |-> PolicyTextShell(c.script, <<>>, c.env_json),
   args |-> <<c.interpreter, c.strict, c.script, c.cwd, c.env_json>>,
   runs |-> [argv |-> c.interpreter, cwd |-> c.cwd, env |-> c.env_json,
             stdin |-> (IF c.strict /\ c.interpreter # "python" THEN <<"set -eu">> ELSE <<>>)
                         \o c.script],
   sees |-> Words({c.script, c.env_json})]
ShellScriptCalls ==
  [script : Texts, env_json : Texts, cwd : Dirs, strict : BOOLEAN,
   interpreter : {"bash", "sh", "python"}]

\* The audited command names the default shell, spawn_argv starts it.
ShellSpawn(c) ==
  [probe |-> PolicyTextShell(c.command, <<>>, c.env_json),
   args |-> <<Or(c.command, <<>>, <<"/bin/bash">>), c.size, c.cwd, c.env_json>>,
   runs |-> [argv |-> Or(c.command, <<>>, <<"/bin/bash">>), size |-> c.size,
             cwd |-> c.cwd, env |-> c.env_json],
   sees |-> Words({c.command, c.env_json})]
ShellSpawnCalls == [command : Texts, env_json : Texts, cwd : Dirs, size : Sizes]

SshExec(c) ==
  [probe |-> PolicyTextSsh(c.target.host, c.command, c.target.jump),
   args |-> <<c.command, SshTargetAudit(c.target)>>,
   runs |-> [command |-> c.command, at |-> Terms(c.target)],
   sees |-> Words({c.command, <<c.target.host>>, c.target.jump})]
SshExecCalls == [command : Texts, target : Targets]

\* The audited command of a login shell reads "shell".
SshSpawn(c) ==
  [probe |-> PolicyTextSsh(c.target.host, c.command, c.target.jump),
   args |-> <<Or(c.command, <<>>, <<"shell">>), c.size, SshTargetAudit(c.target)>>,
   runs |-> [command |-> c.command, size |-> c.size, at |-> Terms(c.target)],
   sees |-> Words({c.command, <<c.target.host>>, c.target.jump})]
SshSpawnCalls == [command : Texts, size : Sizes, target : Targets]

SshUpload(c) ==
  [probe |-> PolicyTextSshUpload(c.target.host, c.local, c.remote, c.target.jump),
   args |-> <<c.local, c.remote, c.recursive, SshTargetAudit(c.target)>>,
   runs |-> [from |-> c.local, to |-> c.remote, recurse |-> c.recursive,
             at |-> Terms(c.target)],
   sees |-> Words({<<c.local, c.remote, c.target.host>>, c.target.jump})]
SshDownload(c) ==
  [probe |-> PolicyTextSshDownload(c.target.host, c.remote, c.local, c.target.jump),
   args |-> <<c.remote, c.local, c.recursive, SshTargetAudit(c.target)>>,
   runs |-> [from |-> c.remote, to |-> c.local, recurse |-> c.recursive,
             at |-> Terms(c.target)],
   sees |-> Words({<<c.local, c.remote, c.target.host>>, c.target.jump})]
TransferCalls == [local : Files, remote : Files, recursive : BOOLEAN, target : Targets]

SshForward(c) ==
  [probe |-> PolicyTextSshForward(c.spec, c.target.host, c.target.jump),
   args |-> <<c.spec, SshTargetAudit(c.target)>>,
   runs |-> [spec |-> c.spec, at |-> Terms(c.target)],
   sees |-> Words({c.spec, <<c.target.host>>, c.target.jump})]
SshForwardCalls == [spec : Specs, target : Targets]

\* The host-list tools refuse a list over the cap before they dial.
WithinCap(names) == Len(names) \in 1..MaxHosts
RunOne(name, command) == <<command, PlainTerms(name)>>
SshFanout(c) ==
  LET names == TargetNames(c.hosts) IN
  [probe |-> PolicyTextSshFanout(c.hosts, c.command),
   args |-> <<c.command, c.hosts>>,
   runs |-> IF WithinCap(names)
            THEN [n \in DOMAIN names |-> RunOne(names[n], c.command)] ELSE <<>>,
   sees |-> IF WithinCap(names) THEN Words({c.command, c.hosts}) ELSE {}]
SshFanoutCalls == [command : Texts, hosts : HostLists]

\* An empty list is audited as "inventory".
SshCheck(c) ==
  LET names == TargetNames(c.hosts) IN
  [probe |-> PolicyTextHosts(c.hosts),
   args |-> Or(c.hosts, <<>>, <<"inventory">>),
   runs |-> IF WithinCap(names)
            THEN [n \in DOMAIN names |-> RunOne(names[n], <<"echo ok">>)] ELSE <<>>,
   sees |-> IF WithinCap(names) THEN ToSet(c.hosts) ELSE {}]
SshCheckCalls == [hosts : HostLists]

\* Every input is validated before it reaches the command line.
ValidScan(c) ==
  /\ WithinCap(c.hosts)
  /\ ToSet(c.hosts) \subseteq HostNames
  /\ c.port \in 1..65535
  /\ c.key_types # {} /\ c.key_types \subseteq KeyTypes
SshKeyscan(c) ==
  [probe |-> PolicyTextHosts(c.hosts),
   args |-> <<c.hosts, c.port, c.key_types>>,
   runs |-> IF ValidScan(c) THEN <<c.hosts, c.port, c.key_types>> ELSE <<>>,
   sees |-> IF ValidScan(c) THEN ToSet(c.hosts) ELSE {}]
SshKeyscanCalls ==
  [hosts : HostLists, port : {0, 22, 65535, 65536}, key_types : SUBSET (KeyTypes \cup {"w"})]

\* session_send: the probe is the line as it will stand.  The audit shows the
\* data, its hash, or at a secret prompt its length alone; "?" is a character
\* that is counted and not shown.
SessionSend(c) ==
  [probe |-> PolicyTextSessionSend(c.data, c.pending),
   args |-> <<c.session_id, c.enter, c.shown,
              IF c.shown = "redacted" THEN [i \in DOMAIN c.data |-> "?"] ELSE c.data>>,
   runs |-> [session |-> c.session_id, data |-> c.data, enter |-> c.enter],
   sees |-> ToSet(c.data)]
SessionSendCalls ==
  [session_id : {"s1", "s2"}, data : Texts, pending : Texts, enter : BOOLEAN,
   shown : {"data", "sha256", "redacted"}]

Surface ==
  <<{ShellExec(c) : c \in ShellExecCalls}, {ShellScript(c) : c \in ShellScriptCalls},
   {ShellSpawn(c) : c \in ShellSpawnCalls}, {SshExec(c) : c \in SshExecCalls},
   {SshSpawn(c) : c \in SshSpawnCalls}, {SshUpload(c) : c \in TransferCalls},
   {SshDownload(c) : c \in TransferCalls}, {SshForward(c) : c \in SshForwardCalls},
   {SshFanout(c) : c \in SshFanoutCalls}, {SshCheck(c) : c \in SshCheckCalls},
   {SshKeyscan(c) : c \in SshKeyscanCalls}, {SessionSend(c) : c \in SessionSendCalls}>>

\* One key, one effect.
KeyDecides(calls) == \A c, d \in calls : ConfirmOpKey(c) = ConfirmOpKey(d) => c.runs = d.runs
EveryKeyDecides == \A t \in DOMAIN Surface : KeyDecides(Surface[t])

\* The policy text holds every word of the caller that the executor gets.
Covered(calls) == \A c \in calls : c.sees \subseteq ToSet(c.probe)
ProbeCovers == \A t \in DOMAIN Surface : Covered(Surface[t])

-----------------------------------------------------------------------------
(* The line that is being typed *)

LineReset == {"enter", "interrupt"}

Resets(typed) == {i \in DOMAIN typed : typed[i] \in LineReset}
\* What was typed since the last reset.
SinceReset(typed) == SubSeq(typed, Max({0} \cup Resets(typed)) + 1, Len(typed))
\* The end of a line that is too long to keep.
Ending(line) == SubSeq(line, Max({1, Len(line) - PendingMax + 1}), Len(line))

\* Mutant: one character too few is kept.
FaultyAdvanceLine(pending, typed) ==
  LET line == IF Resets(typed) = {} THEN pending \o typed ELSE SinceReset(typed)
  IN SubSeq(line, Max({1, Len(line) - PendingMax + 2}), Len(line))
\* _advance_line: the line since the last reset, its end if it is long.
AdvanceLine(pending, typed) ==
  Ending(IF Resets(typed) = {} THEN pending \o typed ELSE SinceReset(typed))

\* A call of session_send, its probe and the line that SessionRegistry.send keeps.
Payload(c) == IF c.enter THEN Append(c.data, "enter") ELSE c.data
SendLine(s, c) ==
  [pending |-> AdvanceLine(s.pending, Payload(c)),
   probe |-> PolicyTextSessionSend(c.data, s.pending),
   typed |-> s.typed \o Payload(c)]

\* The terminal: a line is what stands between two resets, and "enter" hands
\* it to the shell.
Submitted(typed, from) ==
  {SinceReset(SubSeq(typed, 1, i - 1)) :
     i \in {j \in (from + 1)..Len(typed) : typed[j] = "enter"}}
Within(line, text) ==
  \E i \in 0..(Len(text) - Len(line)) : SubSeq(text, i + 1, i + Len(line)) = line

\* A session into which typed was typed, as send() keeps its line.
Kept(typed) == [pending |-> Ending(SinceReset(typed)), probe |-> <<>>, typed |-> typed]
Sends == [data : Typed, enter : BOOLEAN]
LinesWhole ==
  /\ Kept(<<>>).pending = <<>>
  /\ \A typed \in Histories, c \in Sends :
       LET after == SendLine(Kept(typed), c) IN
       /\ after.pending = Kept(after.typed).pending
       /\ \A line \in Submitted(after.typed, Len(typed)) :
            Len(line) <= PendingMax => Within(line, after.probe)
=============================================================================
