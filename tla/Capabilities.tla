----------------------------- MODULE Capabilities -----------------------------
(***************************************************************************)
(* What a memory repository can do (resolve_memory_capabilities.py): the      *)
(* capability manifest is checked, table against table and against the tools   *)
(* that the running memory server exports, a mode is chosen, and the user      *)
(* interface is told which operations need a preview.  The manifest is edited   *)
(* by hand and the server changes from one start to the next.                   *)
(***************************************************************************)
EXTENDS Naturals, FiniteSets

CONSTANTS
  Tool,            \* tools that a server may export
  Operation,       \* operations of the desktop
  Manifests,       \* the manifests looked at, of the set Manifest below
  ReadOnlyAllowed  \* capability_discovery.read_only_runtime_allowed

VARIABLES manifest, exported, mutating, pc, errors, mode, preview
vars == <<manifest, exported, mutating, pc, errors, mode, preview>>

Class == {"automatic", "proposed", "protected"}
\* Tables whose own keys are checked one by one, whatever the others hold.
Table == {"integration_boundary", "shared_result", "change_classes", "raw_fallback_policy",
          "fallback_behavior", "approval_ux", "ui_feedback"}

\* The parts of a manifest that other parts, or the server, must agree with: the tool
\* sets with the minimum of two, the class of each tool's contract ("none": it has no
\* table under operations), the classes that are previewed, the desktop operations.
Manifest ==
  [read : SUBSET Tool, raw : SUBSET Tool, semantic : SUBSET Tool,
   minRead : SUBSET Tool, minSemantic : SUBSET Tool,
   contract : [Tool -> Class \cup {"none", "unknown"}], previewed : SUBSET Class,
   desktop : [Operation -> [status : {"implemented", "gap", "other"}, tool : Tool,
                            class : Class, profile : BOOLEAN]],
   broken : SUBSET Table, compatible : BOOLEAN, readOnlyProfile : SUBSET Tool]

-----------------------------------------------------------------------------
(* The checks of the manifest alone, each with the name of the table it is about. *)
When(wrong, table) == IF wrong THEN {table} ELSE {}
m == manifest

BoundaryErrors == m.broken \cap {"integration_boundary"}
PolicyErrors == m.broken \cap {"shared_result", "change_classes", "raw_fallback_policy"}
FallbackErrors == m.broken \cap {"fallback_behavior"}
InterfaceErrors == m.broken \cap {"approval_ux", "ui_feedback"}
DiscoveryErrors ==
  When(~(m.minRead \subseteq m.read /\ m.minSemantic \subseteq m.semantic) \/ ~m.compatible, "discovery")
OverlapErrors ==
  When(m.read \cap m.raw # {} \/ m.read \cap m.semantic # {} \/ m.raw \cap m.semantic # {}, "tool_sets")
ApprovalErrors == When(~({"proposed", "protected"} \subseteq m.previewed), "preview")
ContractErrors == When(\E t \in m.semantic : m.contract[t] \in {"none", "unknown"}, "operations")

\* Faulty variant: the class of the tool's contract is not compared.
AgreesByName(d) == d.tool \in m.semantic
\* An implemented operation names a semantic tool, and has the class of its contract.
Agrees(d) == d.tool \in m.semantic /\ m.contract[d.tool] = d.class
DesktopErrors ==
  When(\E o \in Operation : LET d == m.desktop[o]
         IN \/ d.status = "implemented" /\ ~Agrees(d)
            \/ d.status = "gap" /\ ~d.profile
            \/ d.status = "other",
       "desktop_operations")
ManifestErrors ==
  BoundaryErrors \cup DiscoveryErrors \cup OverlapErrors \cup PolicyErrors \cup FallbackErrors
    \cup ApprovalErrors \cup InterfaceErrors \cup ContractErrors \cup DesktopErrors

-----------------------------------------------------------------------------
(* The checks of the server. *)
WritesPresent == (m.raw \cup m.semantic) \cap exported # {}
RawExported == m.raw \cap exported # {}
Declared == m.read \cup m.semantic \cup (IF RawExported THEN m.raw ELSE {})
\* Faulty variant: a tool that nobody declared is ignored.
UndeclaredNone == {}
Undeclared == exported \ Declared
WithoutContract == {t \in (mutating \cap exported) \ m.raw : m.contract[t] = "none"}
RuntimeErrors ==
  When(Undeclared # {}, "undeclared")
    \cup When(WithoutContract # {}, "without_contract")
    \cup When(m.readOnlyProfile \cap mutating \cap exported # {}, "read_only_profile")
    \cup When(WritesPresent /\ ~(Declared \subseteq exported), "not_exported")
    \cup When(~WritesPresent /\ ~(m.minRead \subseteq exported), "minimum_read")

ReadOnlyRuntime == ReadOnlyAllowed /\ ~WritesPresent /\ m.minRead \subseteq exported
ModeOf ==
  IF m.compatible /\ m.minRead \subseteq exported /\ m.minSemantic \subseteq exported THEN "semantic"
  ELSE IF m.compatible /\ ReadOnlyRuntime THEN "read_only" ELSE "fallback"

-----------------------------------------------------------------------------
(* What the user interface is told. *)
Previewed == {o \in Operation : m.desktop[o].class \in m.previewed}
Having(status) == {o \in Operation : m.desktop[o].status = status}
Summary ==
  [status |-> CASE mode = "semantic" -> "ready" [] mode \in {"read_only", "fallback"} -> "attention"
                [] mode = "manifest_only" -> "info",
   implemented |-> Cardinality(Having("implemented")), gaps |-> Cardinality(Having("gap"))]

Init ==
  /\ manifest \in Manifests /\ exported = {} /\ mutating = {}
  /\ pc = "idle" /\ errors = {} /\ mode = "none" /\ preview = {}

\* The server is started with some tools, which change memory or only read it.
Serve ==
  /\ pc \in {"idle", "resolved"} /\ pc' = "serving"
  /\ exported' \in SUBSET Tool /\ mutating' \in SUBSET exported'
  /\ errors' = {} /\ mode' = "none" /\ preview' = {} /\ UNCHANGED manifest

\* Without the runtime, or with a server that cannot be imported, the manifest decides.
Resolve ==
  /\ pc = "serving" /\ pc' = "resolved"
  /\ \/ mode' = ModeOf /\ errors' = ManifestErrors \cup RuntimeErrors
     \/ mode' = "manifest_only" /\ errors' = ManifestErrors
  /\ preview' = Previewed
  /\ UNCHANGED <<manifest, exported, mutating>>

Next == Serve \/ Resolve
Spec == Init /\ [][Next]_vars

-----------------------------------------------------------------------------
TypeOK == manifest \in Manifest /\ exported \subseteq Tool /\ mutating \subseteq exported /\ preview \subseteq Operation

\* A manifest that passes has no operation that changes memory behind the user's back: if
\* the tool that implements a desktop operation has a contract of the class proposed or
\* protected, the interface asks for a preview, whatever class the operation claims.
ProtectedIsPreviewed ==
  pc = "resolved" /\ errors = {} =>
    \A o \in Operation :
      m.desktop[o].status = "implemented"
        /\ m.contract[m.desktop[o].tool] \in {"proposed", "protected"} => o \in preview

\* A server resolved as read-only, with no error, exports no tool that changes memory, if
\* the profile read_only holds the tools of the set read_support, as the shipped one does.
ReadOnlyReadsOnly ==
  pc = "resolved" /\ errors = {} /\ mode = "read_only" /\ m.read \subseteq m.readOnlyProfile
    => mutating = {}

\* A server whose status is "ready" and that has no error exports every tool that an
\* implemented operation needs, and no operation is left out of the two counts.
ReadyServes ==
  pc = "resolved" /\ errors = {} =>
    /\ Summary.implemented + Summary.gaps = Cardinality(Operation)
    /\ Summary.status = "ready" /\ WritesPresent
         => \A o \in Having("implemented") : m.desktop[o].tool \in exported

\* What a manifest without errors promises of previews and of read-only servers holds.
ContractHolds == ProtectedIsPreviewed /\ ReadOnlyReadsOnly /\ ReadyServes
-----------------------------------------------------------------------------
(* What ContractHolds rests on, for a proof by induction: the answer is that of the *)
(* manifest and the server as they still are.                                       *)
Answered ==
  pc = "resolved" =>
    /\ ManifestErrors \subseteq errors /\ preview = Previewed
    /\ mode = "manifest_only" \/ (mode = ModeOf /\ RuntimeErrors \subseteq errors)
IInv == TypeOK /\ Answered
=============================================================================
