------------------------------ MODULE ScriptTools ------------------------------
(***************************************************************************)
(* Running a script of a skill (internal/tools/skillscript.go Run,         *)
(* internal/skills/policy.go, scriptbox.go): the host policy is applied,   *)
(* a sandbox found, the run approved by its tier, its packages installed   *)
(* if they aren't, and the script run.  Other runs, and the user, install  *)
(* and remove the same packages meanwhile and edit the skill.              *)
(***************************************************************************)
EXTENDS WorkerRun, Schedules, WebAccess

CONSTANTS MaxSkillRuns, \* bound: runs of the script
          MaxTimeout,   \* bound: of the timeouts written down
          MaxMeddling   \* bound: what others do to packages and skill

VARIABLES skill,     \* what the skill asks for and SkillPolicy
          scriptRun, \* the run under way and what the last one ran with
          packages,  \* the environment for its packages: "missing" or "ready"
          meddled    \* what others did

skillVars == <<skill, scriptRun, packages, meddled>>

(* HITLTier, in its order. *)
Unspecified == 0
BypassAll == 1
AutoRead == 2
AuditedWrite == 3
Mandatory == 4

-------------------------------------------------------------------------------
(* Evaluate: the stricter of what the skill asks for and the policy allows.  *)

Larger(a, b) == IF a > b THEN a ELSE b
Smaller(a, b) == IF a < b THEN a ELSE b

Declared == IF skill.asksHuman THEN Mandatory ELSE skill.tier

(* Without approval only when both say so; and when either does. *)
BypassEither == Declared = BypassAll /\ (skill.mayBypass \/ skill.asksBypass)
Bypass == Declared = BypassAll /\ skill.mayBypass /\ skill.asksBypass

EffectiveTier ==
    CASE Declared = BypassAll -> IF Bypass THEN BypassAll ELSE Mandatory
      [] OTHER -> Larger(Declared, Smaller(AutoRead + Larger(skill.minTier - 1, 0), Mandatory))

Timeout ==
    LET own == IF skill.timeout = 0 THEN skill.hint ELSE skill.timeout
    IN IF skill.most > 0 /\ (own = 0 \/ own > skill.most) THEN skill.most ELSE own

(* A reason no script may run: a problem, an untrusted content, the network. *)
Blocked ==
    \/ skill.trusted # {} /\ scriptRun.content \notin skill.trusted
    \/ skill.network /\ ~skill.mayNetwork

(* NewScriptBox: there is no sandbox when there is none that works. *)
Box ==
    IF skill.mode \in {"gvisor", "auto"} /\ "gvisor" \in skill.works THEN "gvisor"
    ELSE IF skill.mode \in {"os", "auto"} /\ "os" \in skill.works THEN "os" ELSE "none"

-------------------------------------------------------------------------------
(* Marks: a rule to install these packages, packages removed after they were *)
(* looked up, and packages installed unasked.                                *)
NotRunning == [pc |-> "idle", hash |-> "none", yes |-> {}, content |-> "v1", marks |-> {}, runs |-> 0, ran |-> [hash |-> "none"]]

Noted(mark) == mark \in scriptRun.marks

(* Each setting varies with the others at their defaults, the approvals with *)
(* one another.                                                              *)
Defaults == [tier |-> AuditedWrite, asksHuman |-> FALSE, asksBypass |-> FALSE, deps |-> TRUE, network |-> FALSE,
             timeout |-> 0, hint |-> 0, minTier |-> 2, mayBypass |-> FALSE, mayNetwork |-> FALSE, most |-> 0,
             trusted |-> {}, approves |-> "asks", mode |-> "auto", works |-> {"gvisor", "os"}]

Approvals == {"asks", "commands", "all", "unattended"}

TierSet(t, human, bypass, may, m, a) ==
    [Defaults EXCEPT !.tier = t, !.asksHuman = human, !.asksBypass = bypass, !.mayBypass = may, !.minTier = m, !.approves = a]
LimitsSet(a, b, c) == [Defaults EXCEPT !.timeout = a, !.hint = b, !.most = c]
TrustSet(n, m, t, d) == [Defaults EXCEPT !.network = n, !.mayNetwork = m, !.trusted = t, !.deps = d]
SandboxSet(m, w) == [Defaults EXCEPT !.mode = m, !.works = w]

SkillInit ==
    /\ \/ \E t \in Unspecified .. Mandatory, human, bypass, may \in BOOLEAN, m \in 0 .. 3, a \in Approvals :
              /\ (human \/ bypass \/ may) => t = BypassAll
              /\ skill = TierSet(t, human, bypass, may, m, a)
       \/ \E a, b, c \in 0 .. MaxTimeout : skill = LimitsSet(a, b, c)
       \/ \E n, m \in BOOLEAN, t \in SUBSET {"v1", "v2"}, d \in BOOLEAN : skill = TrustSet(n, m, t, d)
       \/ \E m \in {"auto", "gvisor", "os"}, w \in SUBSET {"gvisor", "os"} : skill = SandboxSet(m, w)
    /\ scriptRun = NotRunning
    /\ packages = "missing" /\ meddled = 0

Fails == scriptRun' = [scriptRun EXCEPT !.pc = "idle"]
StaysIn(vars) == UNCHANGED <<skill, meddled>> /\ UNCHANGED vars

(* Hooks.Approve: the policy, the unattended run's permissions, which cover  *)
(* nothing without a target, or the user.  "always" is for a request with a  *)
(* key alone.                                                                *)
Granted(kind) ==
    skill.approves = "all" \/ (skill.approves = "commands" /\ kind = "run")

Asks(kind, next, rule) ==
    IF skill.approves = "unattended" THEN Fails
    ELSE \/ (Granted(kind) \/ rule) /\ scriptRun' = [scriptRun EXCEPT !.pc = next]
         \/ ~Granted(kind) /\ ~rule /\ (Fails \/ scriptRun' = [scriptRun EXCEPT !.pc = next, !.yes = @ \cup {kind}])

BeginScript ==
    /\ scriptRun.pc = "idle" /\ scriptRun.runs < MaxSkillRuns
    /\ scriptRun' = [scriptRun EXCEPT !.pc = IF Blocked \/ Box = "none" THEN "idle"
                                       ELSE IF EffectiveTier >= Mandatory THEN "tier" ELSE "packages",
                                !.hash = scriptRun.content, !.yes = {}, !.marks = @ \cap {"rule"},
                                !.runs = @ + 1]
    /\ StaysIn(packages)

(* Tier 3 asks, and the answer isn't kept. *)
ApproveRun == scriptRun.pc = "tier" /\ Asks("run", "packages", FALSE) /\ StaysIn(packages)

(* Lookup, under the lock of the environment, which it gives back. *)
LookUp ==
    /\ scriptRun.pc = "packages"
    /\ scriptRun' = [scriptRun EXCEPT !.pc = IF ~skill.deps THEN "exec"
                                             ELSE IF packages = "ready" THEN "ensure" ELSE "install",
                                !.marks = @ \ {"removed"}]
    /\ StaysIn(packages)

(* Installing is asked apart, and may be allowed for exactly these packages. *)
ApproveInstall ==
    /\ scriptRun.pc = "install"
    /\ \/ Asks("install", "ensure", Noted("rule"))
       \/ /\ skill.approves \in {"asks", "commands"} /\ ~Noted("rule")
          /\ scriptRun' = [scriptRun EXCEPT !.pc = "ensure", !.yes = @ \cup {"install"}, !.marks = @ \cup {"rule"}]
    /\ StaysIn(packages)

(* Ensure: what isn't ready any more is built, in the sandbox but with the   *)
(* network.                                                                  *)
EnsurePackages ==
    /\ scriptRun.pc = "ensure"
    /\ \/ packages = "ready" /\ scriptRun' = [scriptRun EXCEPT !.pc = "exec"] /\ UNCHANGED packages
       \/ /\ packages = "missing" /\ packages' = "ready"
          /\ scriptRun' = [scriptRun EXCEPT !.pc = "exec",
                           !.marks = IF Granted("install") \/ Noted("rule") \/ "install" \in scriptRun.yes THEN @ ELSE @ \cup {"unasked"}]
       \/ packages = "missing" /\ Fails /\ UNCHANGED packages
    /\ UNCHANGED <<skill, meddled>>

Exec ==
    /\ scriptRun.pc = "exec"
    /\ scriptRun' = [scriptRun EXCEPT !.pc = "idle",
                     !.ran = [hash |-> scriptRun.hash, content |-> scriptRun.content, yes |-> scriptRun.yes, box |-> Box]]
    /\ StaysIn(packages)

(* Another run installs the packages, someone removes them or edits the skill. *)
OthersMeddle ==
    /\ meddled < MaxMeddling /\ meddled' = meddled + 1
    /\ \/ packages = "missing" /\ packages' = "ready" /\ UNCHANGED scriptRun
       \/ packages = "ready" /\ packages' = "missing" /\ scriptRun' = [scriptRun EXCEPT !.marks = @ \cup {"removed"}]
       \/ scriptRun' = [scriptRun EXCEPT !.content = IF @ = "v1" THEN "v2" ELSE "v1"] /\ UNCHANGED packages
    /\ UNCHANGED skill

SkillNext == BeginScript \/ ApproveRun \/ LookUp \/ ApproveInstall \/ EnsurePackages \/ Exec \/ OthersMeddle

SkillSpec == SkillInit /\ [][SkillNext]_skillVars

-------------------------------------------------------------------------------
SkillTypeOK ==
    /\ skill.tier \in Unspecified .. Mandatory
    /\ scriptRun.pc \in {"idle", "tier", "packages", "install", "ensure", "exec"}
    /\ scriptRun.yes \subseteq {"run", "install"} /\ scriptRun.marks \subseteq {"rule", "removed", "unasked"} /\ scriptRun.runs \in 0 .. MaxSkillRuns
    /\ packages \in {"missing", "ready"} /\ meddled \in 0 .. MaxMeddling

Ran == scriptRun.ran.hash # "none"

(* A script that ran without the user's yes is one both sides let bypass,    *)
(* one neither the skill nor the policy wanted asked, or one of a host that  *)
(* approves every command; never an unattended one of tier 3               *)
(* (skills/policy.go:140-151, tools/skillscript.go:142-154).                 *)
RunAsked ==
    Ran /\ "run" \notin scriptRun.ran.yes =>
        \/ Declared = BypassAll /\ skill.mayBypass /\ skill.asksBypass
        \/ Declared \in {Unspecified, AutoRead, AuditedWrite} /\ skill.minTier < 3
        \/ skill.approves \in {"commands", "all"}

(* "Installing reaches the network and runs installers: approved on its own" *)
(* (tools/skillscript.go:161): nothing is installed without a yes to that,   *)
(* now or earlier, but what was removed after it was seen ready.             *)
InstallAsked == Noted("unasked") => Noted("removed")

(* What ran had a sandbox of the kind the policy names, a limit of time no   *)
(* longer than the policy's, and a content that was trusted when it was      *)
(* checked; what is run may have been edited since, while the user was asked *)
(* (skillscript.go:119, 190).                                                *)
RunConfined ==
    /\ Ran => /\ scriptRun.ran.box \in skill.works /\ skill.mode \in {"auto", scriptRun.ran.box}
              /\ skill.trusted # {} => scriptRun.ran.hash \in skill.trusted
              /\ skill.network => skill.mayNetwork
    /\ skill.most > 0 => Timeout \in 1 .. skill.most

SkillsKept == RunAsked /\ InstallAsked /\ RunConfined

-------------------------------------------------------------------------------
(***************************************************************************)
(* The tools an agent forges (internal/tools/universal_constructor.go),    *)
(* for one name: create asks, writes the script of its language, then the  *)
(* manifest, then the entry in memory; delete asks and takes them away in  *)
(* that order; run asks and executes the script of the entry.  Files may   *)
(* fail to be written or removed, calls overlap, and a restart reads what  *)
(* the manifests say.                                                      *)
(***************************************************************************)

CONSTANTS Forgers,    \* calls at a time
          Languages,
          NoLanguage,
          MaxForged,  \* bound: calls
          MaxForgeFaults \* bound: failing writes and removals, and restarts

ASSUME ForgeAssumption == MaxForged \in Nat

VARIABLES forging, \* the call of each forger
          scripts, \* the code in the script of each language, or 0, or Cut
          manifest, \* the language in the manifest
          listed,   \* the language of the entry in memory
          forged   \* calls made, faults, approved code, what ran, and whether calls overlapped or failed since the start

forgeVars == <<forging, scripts, manifest, listed, forged>>

Ready == [pc |-> "none"]
Cut == MaxForged + 1 \* what a write that failed half way left
Unforged == [l \in Languages |-> 0]

ForgeInit ==
    /\ forging = [f \in Forgers |-> Ready]
    /\ scripts = Unforged
    /\ manifest = NoLanguage /\ listed = NoLanguage
    /\ forged = [calls |-> 0, faults |-> 0, approved |-> {}, ran |-> {}, doubts |-> {}]

CallsNow == {f \in Forgers : forging[f].pc # "none"}

(* Another call under way when one begins. *)
Start(f, call) ==
    /\ forging[f] = Ready /\ forged.calls < MaxForged
    /\ forging' = [forging EXCEPT ![f] = call]
    /\ forged' = [forged EXCEPT !.calls = @ + 1, !.doubts = @ \cup IF CallsNow = {} THEN {} ELSE {"overlap"}]
    /\ UNCHANGED <<scripts, manifest, listed>>

Create(f, l) == Start(f, [pc |-> "asksCreate", language |-> l, code |-> forged.calls + 1])
RunForged(f) == listed # NoLanguage /\ Start(f, [pc |-> "asksRun", language |-> listed, code |-> 0])
Delete(f) == listed # NoLanguage /\ Start(f, [pc |-> "asksDelete", language |-> listed, code |-> 0])

ForgeGoes(f, pc) == forging' = [forging EXCEPT ![f].pc = pc]
Ends(f) == forging' = [forging EXCEPT ![f] = Ready]

(* Approve: the user, a rule for running this name, or the policy. *)
Approved(f) ==
    /\ forging[f].pc \in {"asksCreate", "asksRun", "asksDelete"}
    /\ CASE forging[f].pc = "asksCreate" ->
                ForgeGoes(f, "writesScript") /\ forged' = [forged EXCEPT !.approved = @ \cup {forging[f].code}]
         [] forging[f].pc = "asksRun" -> ForgeGoes(f, "runs") /\ UNCHANGED forged
         [] forging[f].pc = "asksDelete" -> ForgeGoes(f, "removesScript") /\ UNCHANGED forged
    /\ UNCHANGED <<scripts, manifest, listed>>

NotApproved(f) ==
    /\ forging[f].pc \in {"asksCreate", "asksRun", "asksDelete"}
    /\ Ends(f) /\ UNCHANGED <<scripts, manifest, listed, forged>>

WriteScript(f) ==
    /\ forging[f].pc = "writesScript" /\ ForgeGoes(f, "writesManifest")
    /\ scripts' = [scripts EXCEPT ![forging[f].language] = forging[f].code]
    /\ UNCHANGED <<manifest, listed, forged>>

WriteManifest(f) ==
    /\ forging[f].pc = "writesManifest" /\ ForgeGoes(f, "registers")
    /\ manifest' = forging[f].language
    /\ UNCHANGED <<scripts, listed, forged>>

Registered(f) ==
    /\ forging[f].pc = "registers" /\ Ends(f)
    /\ listed' = forging[f].language
    /\ UNCHANGED <<scripts, manifest, forged>>

(* A script that isn't there makes the interpreter fail. *)
Executes(f) ==
    /\ forging[f].pc = "runs" /\ Ends(f)
    /\ forged' = [forged EXCEPT !.ran = @ \cup ({scripts[forging[f].language]} \ {0})]
    /\ UNCHANGED <<scripts, manifest, listed>>

(* What is removed is the script of the entry that was looked up. *)
RemoveScript(f) ==
    /\ forging[f].pc = "removesScript" /\ ForgeGoes(f, "removesManifest")
    /\ scripts' = [scripts EXCEPT ![forging[f].language] = 0]
    /\ UNCHANGED <<manifest, listed, forged>>

RemoveManifest(f) ==
    /\ forging[f].pc = "removesManifest" /\ ForgeGoes(f, "forgets")
    /\ manifest' = NoLanguage
    /\ UNCHANGED <<scripts, listed, forged>>

Unlists(f) ==
    /\ forging[f].pc = "forgets" /\ Ends(f)
    /\ listed' = NoLanguage
    /\ UNCHANGED <<scripts, manifest, forged>>

(* A write that fails, or is killed, may leave a file cut short; a manifest  *)
(* cut short isn't one.                                                      *)
Fault(f) ==
    /\ forging[f].pc \in {"writesScript", "writesManifest", "removesScript", "removesManifest"}
    /\ forged.faults < MaxForgeFaults /\ forged' = [forged EXCEPT !.faults = @ + 1, !.doubts = @ \cup {"fault"}]
    /\ scripts' \in {scripts} \cup IF forging[f].pc # "writesScript" THEN {}
                                   ELSE {[scripts EXCEPT ![forging[f].language] = Cut]}
    /\ manifest' \in {manifest} \cup IF forging[f].pc = "writesManifest" THEN {NoLanguage} ELSE {}
    /\ Ends(f) /\ UNCHANGED listed

(* load: the script must be there; a manifest alone is as good. *)
LoadedAnyway == manifest
Loaded == IF manifest # NoLanguage /\ scripts[manifest] # 0 THEN manifest ELSE NoLanguage

RestartForge ==
    /\ forged.faults < MaxForgeFaults /\ forged' = [forged EXCEPT !.faults = @ + 1, !.doubts = {}]
    /\ forging' = [f \in Forgers |-> Ready]
    /\ listed' = Loaded
    /\ UNCHANGED <<scripts, manifest>>

ForgeNext ==
    \/ \E f \in Forgers :
           \/ \E l \in Languages : Create(f, l)
           \/ RunForged(f) \/ Delete(f) \/ Approved(f) \/ NotApproved(f)
           \/ WriteScript(f) \/ WriteManifest(f) \/ Registered(f) \/ Executes(f)
           \/ RemoveScript(f) \/ RemoveManifest(f) \/ Unlists(f) \/ Fault(f)
    \/ RestartForge

ForgeSpec == ForgeInit /\ [][ForgeNext]_forgeVars

-------------------------------------------------------------------------------
ForgeTypeOK ==
    /\ manifest \in Languages \cup {NoLanguage} /\ listed \in Languages \cup {NoLanguage}
    /\ scripts \in [Languages -> 0 .. Cut]
    /\ forged.calls \in 0 .. MaxForged /\ forged.faults \in 0 .. MaxForgeFaults

(* Only code the user saw and approved is written or run, whole or cut short *)
(* by a failing write, whatever overlaps and fails; and what is listed can   *)
(* be run: the entry has its script and its manifest between calls, as long  *)
(* as none overlapped or failed, and again after a restart, which lists no   *)
(* tool without its script (universal_constructor.go:141-169, 264-295).      *)
ForgedSound ==
    /\ forged.ran \cup {scripts[l] : l \in Languages} \subseteq forged.approved \cup {0, Cut}
    /\ forged.doubts = {} /\ CallsNow = {} /\ listed # NoLanguage => listed = manifest /\ scripts[listed] # 0
    /\ \A f \in Forgers : forged.doubts = {} /\ forging[f].pc = "runs" => scripts[forging[f].language] # 0

-------------------------------------------------------------------------------
(* What runs or is fetched, by a worker, as the script of a skill, as a      *)
(* forged tool or as a page, is what the policies and the user allow, within *)
(* its limits, and of workers only those that were reviewed.                 *)
RunsWhatItMay == ScheduledAsReviewed /\ WorkerKept /\ SkillsKept /\ FetchedAsGranted /\ ForgedSound
===============================================================================
