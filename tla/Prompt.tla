------------------------------- MODULE Prompt -------------------------------
(***************************************************************************)
(* run_command_prompt: a line is edited, and the command in it executed.   *)
(* The two sides share nothing but the text of the line, and what a        *)
(* command does depends on its words only, so a session is either one of   *)
(* keys, where the command of each line leaves the line editor alone, or   *)
(* one of commands, whose lines arrive complete.                           *)
(***************************************************************************)
EXTENDS MCLineEditor

CONSTANTS Envs, Pages, Numbers, UINT_MAX, PWS_MAX_SIZE, MaxCommands

VARIABLES
    session,
    _PageRepAlgoType, _UHeapPlacementStrategy, _KHeapPlacementStrategy,
    _EnableBuffering, _EnableModifiedBuffer, _ModifiedBufferLength,
    where, size, present, said, commandCount

C == INSTANCE Commands

ASSUME PromptAssumption == C!ConstantsFit

commandVars ==
    <<_PageRepAlgoType, _UHeapPlacementStrategy, _KHeapPlacementStrategy,
      _EnableBuffering, _EnableModifiedBuffer, _ModifiedBufferLength,
      where, size, present, said, commandCount>>
allVars == <<session, vars, commandVars>>

PromptInit ==
    /\ session \in {"keys", "commands"}
    /\ Init /\ C!Init

Edit == session = "keys" /\ Next /\ UNCHANGED <<session, commandVars>>
Execute == session = "commands" /\ C!Next /\ UNCHANGED <<session, vars>>

PromptNext == Edit \/ Execute

PromptSpec == PromptInit /\ [][PromptNext]_allVars

-----------------------------------------------------------------------------
\* The types of both sides: the buffer and the settings.
PromptTypeOK == TypeOK /\ C!TypeOK

\* What a command says it set is what the query commands answer, the modified
\* buffer is never on without buffering, and the sizes CreateEnv accepted fill a
\* working set, in whatever order the commands come.
SettingsAgree == C!ReportsAgree /\ C!ModifiedNeedsBuffering /\ C!SizesFit

\* How a slot of envs[] goes out of every queue.
LossesAreKnown == C!LossesAreKnown
=============================================================================
