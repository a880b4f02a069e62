---------------------------- MODULE Prompt_proofs ----------------------------
(***************************************************************************)
(* Proofs about Prompt, for every size of the line and of the history, all *)
(* environments and all numbers: what the commands leave behind, and what  *)
(* the line editor shows, stores and recalls.                              *)
(***************************************************************************)
EXTENDS Prompt, ListLemmas, FiniteSetTheorems, TLAPS

-----------------------------------------------------------------------------
(***************************************************************************)
(* The settings.                                                           *)
(***************************************************************************)
SizeRecord == [ws : Nat, active : Nat, second : Nat]

\* The reports and the buffering rule speak of the settings only, so that one
\* command disturbs few of them; the sizes rest on the checks of CreateEnv.
SettingsInv ==
    /\ where \in [Envs -> C!Queues]
    /\ size \in [Envs -> SizeRecord]
    /\ SettingsAgree

\* The difference of two numbers in order is not wrapped.
LEMMA MinusInOrder ==
    ASSUME NEW a \in 0 .. UINT_MAX, NEW b \in 0 .. UINT_MAX
    PROVE  /\ C!Minus(a, b) \in 0 .. UINT_MAX
           /\ b <= a => C!Minus(a, b) = a - b
           /\ b > a => C!Minus(a, b) = a + UINT_MAX + 1 - b
  <1>1. UINT_MAX \in Nat
    BY PromptAssumption DEF C!ConstantsFit
  <1>2. CASE b <= a
    <2>1. a + UINT_MAX + 1 - b = (a - b) + (UINT_MAX + 1)
      BY <1>1
    <2>2. ((a - b) + (UINT_MAX + 1)) % (UINT_MAX + 1) = a - b
      BY <1>1, <1>2
    <2>3. QED BY <1>1, <1>2, <2>1, <2>2 DEF C!Minus
  <1>3. CASE b > a
    <2>1. a + UINT_MAX + 1 - b \in 0 .. UINT_MAX
      BY <1>1, <1>3
    <2>2. QED BY <1>1, <1>3, <2>1 DEF C!Minus
  <1>4. QED BY <1>1, <1>2, <1>3

\* The sizes that CreateEnv accepts fill the working set.
LEMMA AcceptedSizes ==
    ASSUME NEW numbers \in 1 .. 3, NEW s \in C!Sizes(numbers), C!Accepted(s),
           NEW active,
           active = IF _PageRepAlgoType = "LISTS" THEN C!Minus(s.ws, s.second) ELSE 0
    PROVE  /\ [ws |-> s.ws, second |-> s.second, active |-> active] \in SizeRecord
           /\ s.ws # 0 =>
                /\ s.ws \in 1 .. PWS_MAX_SIZE
                /\ \/ active = 0 /\ s.second = 0
                   \/ active >= 1 /\ active + s.second = s.ws
  <1>1. /\ UINT_MAX \in Nat /\ PWS_MAX_SIZE \in 1 .. UINT_MAX - 1
        /\ Numbers \subseteq 0 .. UINT_MAX
    BY PromptAssumption DEF C!ConstantsFit
  <1>2. CASE _PageRepAlgoType = "LISTS"
    <2>1. s.ws \in 0 .. UINT_MAX /\ s.second \in 0 .. UINT_MAX
      BY <1>1, <1>2 DEF C!Sizes
    <2>2. s.ws <= PWS_MAX_SIZE /\ s.second <= C!Minus(s.ws, 1)
      BY <1>2 DEF C!Accepted
    <2>3. active \in 0 .. UINT_MAX
      BY <1>2, <2>1, MinusInOrder
    <2>4. ASSUME s.ws # 0
          PROVE  s.second <= s.ws - 1 /\ active = s.ws - s.second
      <3>1. 1 \in 0 .. UINT_MAX /\ 1 <= s.ws
        BY <1>1, <2>1, <2>4
      <3>2. C!Minus(s.ws, 1) = s.ws - 1
        BY <2>1, <3>1, MinusInOrder
      <3>3. s.second <= s.ws
        BY <1>1, <2>1, <2>2, <3>2
      <3>4. QED BY <1>2, <2>1, <2>2, <3>2, <3>3, MinusInOrder
    <2>5. QED BY <1>1, <2>1, <2>2, <2>3, <2>4 DEF SizeRecord
  <1>3. CASE _PageRepAlgoType # "LISTS"
    <2>1. s.ws \in 0 .. UINT_MAX /\ s.second = 0 /\ active = 0
      BY <1>1, <1>3 DEF C!Sizes
    <2>2. s.ws <= PWS_MAX_SIZE
      BY DEF C!Accepted
    <2>3. QED BY <1>1, <2>1, <2>2 DEF SizeRecord
  <1>4. QED BY <1>2, <1>3

\* What the reports say of any settings.
ReportsRight == C!ReportsAgree /\ C!ModifiedNeedsBuffering

\* Commands that leave the environments alone.
LEMMA SizesUntouched ==
    ASSUME SettingsInv, where' = where, size' = size, ReportsRight'
    PROVE  SettingsInv'
  BY DEF SettingsInv, SettingsAgree, ReportsRight, C!SizesFit

LEMMA SettingReports ==
    ASSUME SettingsInv,
           \/ C!command_set_page_rep_LRU \/ C!command_set_page_rep
           \/ C!command_set_uheap_plac \/ C!command_set_kheap_plac
           \/ C!Query
    PROVE  SettingsInv'
  <1> USE DEF SettingsInv, SettingsAgree, ReportsRight, C!ReportsAgree,
              C!ModifiedNeedsBuffering, C!Says, C!envVars, C!settings
  <1>1. ASSUME NEW algorithm, C!SetReplacement(algorithm) PROVE SettingsInv'
    <2>1. where' = where /\ size' = size /\ ReportsRight'
      BY <1>1 DEF C!SetReplacement
    <2>2. QED BY <2>1, SizesUntouched
  <1>2. CASE C!command_set_page_rep_LRU
    <2>1. PICK kind \in Numbers :
            IF kind \in {1, 2}
            THEN C!SetReplacement(IF kind = 1 THEN "TIME" ELSE "LISTS")
            ELSE /\ C!execute_command
                 /\ C!Says(<<"error">>)
                 /\ UNCHANGED <<C!settings, C!envVars>>
      BY <1>2 DEF C!command_set_page_rep_LRU
    <2>2. CASE kind \in {1, 2}
      BY <1>1, <2>1, <2>2
    <2>3. CASE kind \notin {1, 2}
      <3>1. where' = where /\ size' = size /\ ReportsRight'
        BY <2>1, <2>3
      <3>2. QED BY <3>1, SizesUntouched
    <2>4. QED BY <2>2, <2>3
  <1>3. CASE C!command_set_page_rep
    BY <1>1, <1>3 DEF C!command_set_page_rep
  <1>4. CASE C!command_set_uheap_plac
    <2>1. where' = where /\ size' = size /\ ReportsRight'
      BY <1>4 DEF C!command_set_uheap_plac
    <2>2. QED BY <2>1, SizesUntouched
  <1>5. CASE C!command_set_kheap_plac
    <2>1. PICK fit \in C!KHeapFits :
            /\ _KHeapPlacementStrategy' = fit
            /\ said' = <<"kheap", IF fit = "CONTALLOC" THEN "FIRST" ELSE fit>>
      BY <1>5 DEF C!command_set_kheap_plac
    <2>2. where' = where /\ size' = size /\ ReportsRight'
      BY <1>5, <2>1 DEF C!command_set_kheap_plac
    <2>3. QED BY <2>2, SizesUntouched
  <1>6. CASE C!Query
    <2>1. where' = where /\ size' = size /\ ReportsRight'
      BY <1>6 DEF C!Query, C!command_print_page_rep, C!command_print_uheap_plac,
         C!command_print_kheap_plac, C!command_get_modified_buffer_length,
         C!Information, C!command_meminfo
    <2>2. QED BY <2>1, SizesUntouched
  <1>7. QED BY <1>2, <1>3, <1>4, <1>5, <1>6

LEMMA BufferingReports ==
    ASSUME SettingsInv,
           \/ C!command_disable_modified_buffer \/ C!command_enable_modified_buffer
           \/ C!command_disable_buffering \/ C!command_enable_buffering
           \/ C!command_set_modified_buffer_length
    PROVE  SettingsInv'
  <1>1. where' = where /\ size' = size
    BY DEF C!command_disable_modified_buffer, C!command_enable_modified_buffer,
       C!SetModifiedBuffer, C!command_disable_buffering, C!command_enable_buffering,
       C!command_set_modified_buffer_length, C!envVars
  <1>2. ReportsRight'
    <2> USE DEF SettingsInv, SettingsAgree, ReportsRight, C!ReportsAgree,
                C!ModifiedNeedsBuffering, C!Says
    <2>1. CASE C!command_disable_modified_buffer \/ C!command_enable_modified_buffer
      <3>1. PICK enable \in BOOLEAN : C!SetModifiedBuffer(enable)
        BY <2>1 DEF C!command_disable_modified_buffer, C!command_enable_modified_buffer
      <3>2. CASE _EnableBuffering
        <4>1. /\ _EnableModifiedBuffer' = enable /\ said' = <<"modified", enable>>
              /\ _EnableBuffering' = _EnableBuffering
          BY <3>1, <3>2 DEF C!SetModifiedBuffer
        <4>2. C!ReportsAgree'
          BY <3>2, <4>1
        <4>3. C!ModifiedNeedsBuffering'
          BY <3>2, <4>1
        <4>4. QED BY <4>2, <4>3
      <3>3. CASE ~_EnableBuffering
        <4>1. UNCHANGED <<_EnableModifiedBuffer, _EnableBuffering>>
          BY <3>1, <3>3 DEF C!SetModifiedBuffer
        <4>2. said' = <<"not enabled">>
          BY <3>1, <3>3 DEF C!SetModifiedBuffer
        <4>3. QED BY <4>1, <4>2
      <3>4. QED BY <3>2, <3>3
    <2>2. CASE C!command_disable_buffering
      BY <2>2 DEF C!command_disable_buffering
    <2>3. CASE C!command_enable_buffering
      BY <2>3 DEF C!command_enable_buffering
    <2>4. CASE C!command_set_modified_buffer_length
      BY <2>4 DEF C!command_set_modified_buffer_length
    <2>5. QED BY <2>1, <2>2, <2>3, <2>4
  <1>3. QED BY <1>1, <1>2, SizesUntouched

\* A command that says something no report has.
Plain(report) ==
    report[1] \notin {"replacement", "uheap", "kheap", "modified", "length"}

LEMMA PlainReports ==
    ASSUME SettingsInv, UNCHANGED C!settings, Plain(said')
    PROVE  ReportsRight'
  BY DEF SettingsInv, SettingsAgree, ReportsRight, C!ReportsAgree,
     C!ModifiedNeedsBuffering, C!settings, Plain

\* One entry changes: it is out of the queues, or its sizes fit.
LEMMA OneEntry ==
    ASSUME SettingsInv, ReportsRight', NEW e \in Envs,
           NEW queue \in C!Queues, NEW record \in SizeRecord,
           where' = [where EXCEPT ![e] = queue],
           size' = [size EXCEPT ![e] = record],
           queue \in {"new", "exit"} =>
             /\ record.ws \in 1 .. PWS_MAX_SIZE
             /\ \/ record.active = 0 /\ record.second = 0
                \/ record.active >= 1 /\ record.active + record.second = record.ws
    PROVE  SettingsInv'
  <1>1. where' \in [Envs -> C!Queues] /\ size' \in [Envs -> SizeRecord]
    BY DEF SettingsInv
  <1>2. C!SizesFit'
    <2> SUFFICES ASSUME NEW x \in Envs, where'[x] \in {"new", "exit"}
                 PROVE  /\ size'[x].ws \in 1 .. PWS_MAX_SIZE
                        /\ \/ size'[x].active = 0 /\ size'[x].second = 0
                           \/ /\ size'[x].active >= 1
                              /\ size'[x].active + size'[x].second = size'[x].ws
      BY DEF C!SizesFit
    <2>1. CASE x = e
      BY <2>1 DEF SettingsInv
    <2>2. CASE x # e
      <3>1. where'[x] = where[x] /\ size'[x] = size[x]
        BY <2>2 DEF SettingsInv
      <3>2. QED BY <3>1 DEF SettingsInv, SettingsAgree, C!SizesFit
    <2>3. QED BY <2>1, <2>2
  <1>3. QED BY <1>1, <1>2 DEF SettingsInv, SettingsAgree, ReportsRight

\* The entry that env_create takes is a free one.
LEMMA FreeEntry ==
    ASSUME \E e \in Envs : where[e] = "free"
    PROVE  C!FirstFree \in Envs /\ where[C!FirstFree] = "free"
  BY DEF C!FirstFree

LEMMA CreatingFits ==
    ASSUME SettingsInv, C!CreateEnv
    PROVE  SettingsInv'
  <1>1. CASE C!Refused \/ C!PanicsEarly
    <2>1. where' = where /\ size' = size /\ Plain(said') /\ UNCHANGED C!settings
      BY <1>1 DEF C!Refused, C!PanicsEarly, C!Panics, C!Says, Plain, C!envVars
    <2>2. QED BY <2>1, PlainReports, SizesUntouched
  <1>2. ASSUME NEW numbers \in 1 .. 3, NEW s \in C!Sizes(numbers),
               C!Accepted(s), C!env_create(s)
        PROVE  SettingsInv'
    <2> DEFINE e == C!FirstFree
               active == IF _PageRepAlgoType = "LISTS" THEN C!Minus(s.ws, s.second) ELSE 0
               record == [ws |-> s.ws, second |-> s.second, active |-> active]
    <2>1. e \in Envs
      BY <1>2, FreeEntry DEF C!env_create
    <2>2. /\ record \in SizeRecord
          /\ s.ws # 0 =>
               /\ record.ws \in 1 .. PWS_MAX_SIZE
               /\ \/ record.active = 0 /\ record.second = 0
                  \/ record.active >= 1 /\ record.active + record.second = record.ws
      BY <1>2, AcceptedSizes
    <2>3. size' = [size EXCEPT ![e] = record] /\ UNCHANGED C!settings
      BY <1>2 DEF C!env_create
    <2>4. PICK queue \in C!Queues :
            /\ where' = [where EXCEPT ![e] = queue]
            /\ queue \in {"new", "exit"} => s.ws # 0
            /\ Plain(said')
      <3>1. \/ /\ where' = [where EXCEPT ![e] = "lost"] /\ said' = <<"panic">>
            \/ /\ where' = [where EXCEPT ![e] = "new"] /\ said' = <<"created", e>>
               /\ s.ws # 0
        BY <1>2 DEF C!env_create, C!Panics, C!Says
      <3>2. {"lost", "new"} \subseteq C!Queues
        BY DEF C!Queues
      <3>3. QED BY <3>1, <3>2 DEF Plain
    <2>5. ReportsRight'
      BY <2>3, <2>4, PlainReports
    <2> HIDE DEF e, record
    <2>6. QED BY <2>1, <2>2, <2>3, <2>4, <2>5, OneEntry DEF record
  <1>3. QED
    <2>1. CASE \E numbers \in 1 .. 3 : \E s \in C!Sizes(numbers) :
                 IF C!Accepted(s) THEN C!env_create(s) ELSE C!Refused
      BY <1>1, <1>2, <2>1
    <2>2. QED BY <1>1, <2>1 DEF C!CreateEnv

LEMMA RunningFits ==
    ASSUME SettingsInv, C!RunToEnd
    PROVE  SettingsInv'
  <1>1. PICK e \in Envs :
          /\ where[e] = "new"
          /\ where' = [where EXCEPT ![e] = "exit"]
          /\ \/ said' = <<"exited", e>>
             \/ said' = <<"panic">>
             \/ said' = <<"kernel", "crashed">>
    BY DEF C!RunToEnd, C!Says, C!Panics
  <1>2. UNCHANGED C!settings /\ size' = size
    BY DEF C!RunToEnd
  <1>3. ReportsRight'
    BY <1>1, <1>2, PlainReports DEF Plain
  <1>4. size' = [size EXCEPT ![e] = size[e]] /\ size[e] \in SizeRecord
    BY <1>2 DEF SettingsInv
  <1>5. "exit" \in C!Queues
    BY DEF C!Queues
  <1>6. /\ size[e].ws \in 1 .. PWS_MAX_SIZE
        /\ \/ size[e].active = 0 /\ size[e].second = 0
           \/ size[e].active >= 1 /\ size[e].active + size[e].second = size[e].ws
    BY <1>1 DEF SettingsInv, SettingsAgree, C!SizesFit
  <1>7. QED BY <1>1, <1>3, <1>4, <1>5, <1>6, OneEntry

LEMMA FreeingFits ==
    ASSUME SettingsInv, NEW e \in Envs, C!start_env_free(e), UNCHANGED C!settings
    PROVE  SettingsInv'
  <1>1. C!NoSize \in SizeRecord /\ {"lost", "free"} \subseteq C!Queues
    BY DEF C!NoSize, SizeRecord, C!Queues
  <1>2. CASE _EnableBuffering
    <2>1. where' = [where EXCEPT ![e] = "lost"] /\ size' = size /\ said' = <<"panic">>
      BY <1>2 DEF C!start_env_free, C!Panics, C!Says
    <2>2. size' = [size EXCEPT ![e] = size[e]] /\ size[e] \in SizeRecord
      BY <2>1 DEF SettingsInv
    <2>3. ReportsRight'
      BY <2>1, PlainReports DEF Plain
    <2>4. QED BY <1>1, <2>1, <2>2, <2>3, OneEntry
  <1>3. CASE ~_EnableBuffering
    <2>1. /\ where' = [where EXCEPT ![e] = "free"]
          /\ size' = [size EXCEPT ![e] = C!NoSize]
          /\ said' = <<"freed", e>>
      BY <1>3 DEF C!start_env_free, C!Says
    <2>2. ReportsRight'
      BY <2>1, PlainReports DEF Plain
    <2>3. QED BY <1>1, <2>1, <2>2, OneEntry
  <1>4. QED BY <1>2, <1>3

LEMMA KillingFits ==
    ASSUME SettingsInv,
           C!command_kill_program \/ C!KillUnknown \/ C!command_kill_all
    PROVE  SettingsInv'
  <1>1. CASE C!command_kill_program
    BY <1>1, FreeingFits DEF C!command_kill_program
  <1>2. CASE C!KillUnknown
    <2>1. where' = where /\ size' = size /\ Plain(said') /\ UNCHANGED C!settings
      BY <1>2 DEF C!KillUnknown, C!Says, Plain, C!envVars
    <2>2. QED BY <2>1, PlainReports, SizesUntouched
  <1>3. CASE C!command_kill_all
    <2>1. CASE _EnableBuffering
      BY <1>3, <2>1, FreeingFits DEF C!command_kill_all
    <2>2. CASE ~_EnableBuffering
      <3>1. /\ where' = [e \in Envs |-> IF where[e] = "lost" THEN "lost" ELSE "free"]
            /\ size' = [e \in Envs |-> IF where[e] = "lost" THEN size[e] ELSE C!NoSize]
            /\ said' = <<"killed all">> /\ UNCHANGED C!settings
        BY <1>3, <2>2 DEF C!command_kill_all, C!Says
      <3>2. where' \in [Envs -> C!Queues] /\ size' \in [Envs -> SizeRecord]
        BY <3>1 DEF SettingsInv, C!Queues, C!NoSize, SizeRecord
      <3>3. C!SizesFit'
        BY <3>1 DEF C!SizesFit
      <3>4. ReportsRight'
        BY <3>1, PlainReports DEF Plain
      <3>5. QED BY <3>2, <3>3, <3>4 DEF SettingsInv, SettingsAgree, ReportsRight
    <2>3. QED BY <2>1, <2>2
  <1>4. QED BY <1>1, <1>2, <1>3

\* The commands on memory and the test commands.
LEMMA OtherCommands ==
    ASSUME SettingsInv,
           \/ C!UserMemory \/ C!command_remove_table \/ C!KernelMemory
           \/ C!TestCommand \/ C!command_test_sc_MLFQ
    PROVE  SettingsInv'
  <1>1. where' = where /\ size' = size /\ UNCHANGED C!settings
    BY DEF C!UserMemory, C!command_remove_table, C!KernelMemory, C!TestCommand,
       C!command_test_sc_MLFQ, C!envVars
  <1>2. Plain(said')
    <2> USE DEF Plain, C!Says, C!Panics
    <2>1. CASE C!UserMemory
      BY <2>1 DEF C!UserMemory, C!command_writeusermem, C!command_readusermem,
         C!command_readuserblock, C!InUserMemory
    <2>2. CASE C!command_remove_table
      BY <2>2 DEF C!command_remove_table
    <2>3. CASE C!KernelMemory
      BY <2>3 DEF C!KernelMemory, C!command_writemem_k, C!command_readmem_k
    <2>4. CASE C!TestCommand
      BY <2>4 DEF C!TestCommand
    <2>5. CASE C!command_test_sc_MLFQ
      BY <2>5 DEF C!command_test_sc_MLFQ
    <2>6. QED BY <2>1, <2>2, <2>3, <2>4, <2>5
  <1>3. QED BY <1>1, <1>2, PlainReports, SizesUntouched

LEMMA InitSettings == PromptInit => SettingsInv
  <1> SUFFICES ASSUME C!Init PROVE SettingsInv
    BY DEF PromptInit
  <1>1. where \in [Envs -> C!Queues] /\ size \in [Envs -> SizeRecord]
    BY DEF C!Init, C!Queues, C!NoSize, SizeRecord
  <1>2. SettingsAgree
    BY DEF C!Init, SettingsAgree, C!ReportsAgree, C!ModifiedNeedsBuffering, C!SizesFit
  <1>3. QED BY <1>1, <1>2 DEF SettingsInv

LEMMA NextSettings == SettingsInv /\ [PromptNext]_allVars => SettingsInv'
  <1> SUFFICES ASSUME SettingsInv, [PromptNext]_allVars PROVE SettingsInv'
    OBVIOUS
  <1>1. CASE UNCHANGED commandVars
    <2>1. where' = where /\ size' = size /\ ReportsRight'
      BY <1>1 DEF commandVars, SettingsInv, SettingsAgree, ReportsRight,
         C!ReportsAgree, C!ModifiedNeedsBuffering
    <2>2. QED BY <2>1, SizesUntouched
  <1>2. CASE C!Next
    BY <1>2, SettingReports, BufferingReports, CreatingFits, RunningFits, KillingFits,
       OtherCommands DEF C!Next
  <1>3. QED BY <1>1, <1>2 DEF PromptNext, Edit, Execute, allVars

\* What a command says it set is what the query commands answer, buffering of
\* modified pages needs buffering, and the sizes CreateEnv accepted fill a working set,
\* in whatever order the commands come (command_prompt.c:826-848).
THEOREM SettingsAgreeCorrect == PromptSpec => []SettingsAgree
  <1>1. SettingsInv => SettingsAgree
    BY DEF SettingsInv
  <1>2. QED BY InitSettings, NextSettings, <1>1, PTL DEF PromptSpec

\* One step and the slots outside of every queue.
LossStep ==
    \A e \in Envs :
      /\ where[e] = "lost" => where'[e] = "lost"
      /\ where[e] # "lost" /\ where'[e] = "lost" =>
           /\ said' = <<"panic">>
           /\ where[e] = "free" \/ _EnableBuffering
           /\ \A other \in Envs \ {e} : where'[other] = where[other]

LEMMA OneSlotMoves ==
    ASSUME SettingsInv, NEW x \in Envs, NEW queue,
           where' = [where EXCEPT ![x] = queue], where[x] # "lost",
           queue = "lost" => said' = <<"panic">> /\ (where[x] = "free" \/ _EnableBuffering)
    PROVE  LossStep
  <1>1. \A e \in Envs : where'[e] = IF e = x THEN queue ELSE where[e]
    BY DEF SettingsInv
  <1>2. QED BY <1>1 DEF LossStep

LEMMA StartFreeLoses ==
    ASSUME SettingsInv, NEW x \in Envs, where[x] \in {"new", "exit"}, C!start_env_free(x)
    PROVE  LossStep
  <1>1. CASE _EnableBuffering
    <2>1. where' = [where EXCEPT ![x] = "lost"] /\ said' = <<"panic">>
      BY <1>1 DEF C!start_env_free, C!Panics, C!Says
    <2>2. QED BY <1>1, <2>1, OneSlotMoves
  <1>2. CASE ~_EnableBuffering
    <2>1. where' = [where EXCEPT ![x] = "free"]
      BY <1>2 DEF C!start_env_free
    <2>2. QED BY <2>1, OneSlotMoves
  <1>3. QED BY <1>1, <1>2

\* A slot of envs[] goes out of every queue only by a panic: of a creation that has
\* taken it from the free list, or of the freeing of its environment while buffering
\* is on. The step leaves every other slot where it is, and a slot lost stays lost
\* (env_create, user_environment.c:479-660, and start_env_free, :819-829).
THEOREM LossesAreKnownCorrect == PromptSpec => LossesAreKnown
  <1>1. SettingsInv /\ [PromptNext]_allVars => [LossStep]_C!vars
    <2> SUFFICES ASSUME SettingsInv, [PromptNext]_allVars PROVE LossStep \/ UNCHANGED C!vars
      OBVIOUS
    <2>1. CASE where' = where
      BY <2>1 DEF LossStep
    <2>2. CASE where' # where
      <3>1. C!Next
        BY <2>2 DEF PromptNext, Edit, Execute, allVars, commandVars
      <3>2. CASE C!CreateEnv
        <4>1. PICK s : C!env_create(s)
          BY <2>2, <3>2 DEF C!CreateEnv, C!Refused, C!PanicsEarly, C!envVars
        <4>2. C!FirstFree \in Envs /\ where[C!FirstFree] = "free"
          BY <4>1, FreeEntry DEF C!env_create
        <4>3. PICK queue : /\ where' = [where EXCEPT ![C!FirstFree] = queue]
                           /\ queue = "lost" => said' = <<"panic">>
          <5>1. \/ where' = [where EXCEPT ![C!FirstFree] = "new"]
                \/ where' = [where EXCEPT ![C!FirstFree] = "lost"] /\ said' = <<"panic">>
            BY <4>1 DEF C!env_create, C!Panics, C!Says
          <5>2. QED BY <5>1
        <4>4. QED BY <4>2, <4>3, OneSlotMoves
      <3>3. CASE C!RunToEnd
        <4>1. PICK e \in Envs : where[e] = "new" /\ where' = [where EXCEPT ![e] = "exit"]
          BY <3>3 DEF C!RunToEnd
        <4>2. QED BY <4>1, OneSlotMoves
      <3>4. CASE C!command_kill_program
        BY <3>4, StartFreeLoses DEF C!command_kill_program
      <3>5. CASE C!command_kill_all
        <4>1. CASE _EnableBuffering
          BY <3>5, <4>1, StartFreeLoses DEF C!command_kill_all
        <4>2. CASE ~_EnableBuffering
          <5>1. where' = [e \in Envs |-> IF where[e] = "lost" THEN "lost" ELSE "free"]
            BY <3>5, <4>2 DEF C!command_kill_all
          <5>2. QED BY <5>1 DEF LossStep
        <4>3. QED BY <4>1, <4>2
      <3>6. CASE ~(C!CreateEnv \/ C!RunToEnd \/ C!command_kill_program \/ C!command_kill_all)
        BY <3>1, <2>2, <3>6 DEF C!Next, C!command_set_page_rep_LRU, C!command_set_page_rep,
           C!SetReplacement, C!command_set_uheap_plac, C!command_set_kheap_plac, C!Query,
           C!command_disable_modified_buffer, C!command_enable_modified_buffer,
           C!SetModifiedBuffer, C!command_disable_buffering, C!command_enable_buffering,
           C!command_set_modified_buffer_length, C!KillUnknown, C!UserMemory,
           C!command_remove_table, C!KernelMemory, C!TestCommand, C!command_test_sc_MLFQ,
           C!envVars
      <3>7. QED BY <3>2, <3>3, <3>4, <3>5, <3>6
    <2>3. QED BY <2>1, <2>2
  <1>2. QED
    BY InitSettings, NextSettings, <1>1, PTL
    DEF PromptSpec, LossesAreKnown, C!LossesAreKnown, LossStep

-----------------------------------------------------------------------------
(***************************************************************************)
(* Strings in buffers.                                                     *)
(***************************************************************************)
Marks == {Blank, DelChar} \cup Letters
Strings == Seq(Marks)
Lines == {s \in Strings : Len(s) < BUFLEN}
Buffers == [Index -> Chars]

LEMMA MarksAreChars == Marks \subseteq Chars /\ NUL \in Chars /\ NUL \notin Marks
  BY LineAssumption DEF Marks, Chars

LEMMA LeastIs ==
    ASSUME NEW S, S \subseteq Int, NEW m \in S, \A k \in S : m <= k
    PROVE  Least(S) = m
  <1>1. \A n \in S : (\A k \in S : n <= k) => n = m
    OBVIOUS
  <1>2. QED BY <1>1, Zenon DEF Least

LEMMA LargestIs ==
    ASSUME NEW S, S \subseteq Int, NEW m \in S, \A k \in S : k <= m
    PROVE  Largest(S) = m
  <1>1. \A n \in S : (\A k \in S : k <= n) => n = m
    OBVIOUS
  <1>2. QED BY <1>1, Zenon DEF Largest

LEMMA LargestOfTwo ==
    ASSUME NEW a \in Int, NEW b \in Int
    PROVE  Largest({a, b}) = IF a >= b THEN a ELSE b
  <1>1. CASE a >= b
    BY <1>1, LargestIs
  <1>2. CASE a < b
    BY <1>2, LargestIs
  <1>3. QED BY <1>1, <1>2

\* A set of numbers below a bound has a largest element.
LEMMA LargestNumber ==
    ASSUME NEW S, S \subseteq Nat, S # {}, NEW bound \in Nat, \A k \in S : k <= bound
    PROVE  Largest(S) \in S /\ \A k \in S : k <= Largest(S)
  <1> DEFINE Above == {n \in Nat : \A k \in S : k <= n}
  <1>1. PICK n \in Above : \A m \in Above : n <= m
    <2>1. Above \subseteq Nat /\ bound \in Above
      OBVIOUS
    <2>2. QED BY <2>1, LeastNumber
  <1>2. n \in S
    <2>1. SUFFICES ASSUME n \notin S PROVE FALSE
      OBVIOUS
    <2>2. S \subseteq Int /\ n \in Nat /\ \A k \in S : k < n
      BY <1>1, <2>1
    <2>3. n > 0
      <3>1. PICK k \in S : TRUE
        OBVIOUS
      <3>2. k \in Nat /\ k < n
        BY <2>2
      <3>3. QED BY <2>2, <3>2
    <2>4. n - 1 \in Above
      BY <1>1, <2>2, <2>3
    <2>5. QED BY <1>1, <2>4
  <1>3. \A k \in S : k <= n
    BY <1>1
  <1>4. QED BY S \subseteq Int, <1>2, <1>3, LargestIs

LEMMA LeastOf ==
    ASSUME NEW S, S \subseteq Nat, S # {}
    PROVE  Least(S) \in S /\ \A k \in S : Least(S) <= k
  <1>1. PICK m \in S : \A k \in S : m <= k
    BY LeastNumber
  <1>2. QED BY S \subseteq Int, <1>1, LeastIs

\* The string in a buffer ends before n.
EndsAt(b, n) ==
    /\ n \in 0 .. BUFLEN
    /\ \A k \in Index : k < n => b[k] # NUL
    /\ n < BUFLEN => b[n] = NUL

LEMMA StrlenEnds ==
    ASSUME NEW b
    PROVE  EndsAt(b, strlen(b))
  <1> DEFINE S == {k \in Index : b[k] = NUL} \cup {BUFLEN}
  <1>1. BUFLEN \in Nat /\ Index \subseteq Nat
    BY LineAssumption DEF Index
  <1>2. S \subseteq Nat /\ S # {}
    BY <1>1
  <1>3. Least(S) \in S /\ \A k \in S : Least(S) <= k
    BY <1>2, LeastOf
  <1>4. strlen(b) = Least(S)
    BY DEF strlen
  <1>5. BUFLEN \in S
    OBVIOUS
  <1>6. strlen(b) \in 0 .. BUFLEN
    BY <1>1, <1>3, <1>4, <1>5, <1>2
  <1>7. ASSUME NEW k \in Index, k < strlen(b) PROVE b[k] # NUL
    <2>1. SUFFICES ASSUME k \in S PROVE FALSE
      OBVIOUS
    <2>2. strlen(b) <= k
      BY <1>3, <1>4, <2>1
    <2>3. QED BY <1>1, <1>6, <1>7, <2>2
  <1>8. ASSUME strlen(b) < BUFLEN PROVE b[strlen(b)] = NUL
    BY <1>1, <1>3, <1>4, <1>8
  <1>9. QED BY <1>6, <1>7, <1>8 DEF EndsAt

LEMMA StrlenIs ==
    ASSUME NEW b, NEW n, EndsAt(b, n)
    PROVE  strlen(b) = n
  <1> DEFINE S == {k \in Index : b[k] = NUL} \cup {BUFLEN}
  <1>1. BUFLEN \in Nat /\ Index = 0 .. BUFLEN - 1 /\ n \in 0 .. BUFLEN
    BY LineAssumption DEF Index, EndsAt
  <1>2. S \subseteq Int
    BY <1>1
  <1>3. n \in S
    BY <1>1 DEF EndsAt
  <1>4. \A k \in S : n <= k
    BY <1>1 DEF EndsAt
  <1> HIDE DEF S
  <1>5. Least(S) = n
    BY <1>2, <1>3, <1>4, LeastIs
  <1>6. QED BY <1>5 DEF strlen, S

\* What a buffer holds is a string.
LEMMA TextIsString ==
    ASSUME NEW b \in Buffers
    PROVE  /\ Text(b) \in Strings
           /\ Len(Text(b)) = strlen(b)
           /\ strlen(b) \in 0 .. BUFLEN
           /\ \A k \in 1 .. strlen(b) : Text(b)[k] = b[k - 1]
  <1>1. EndsAt(b, strlen(b)) /\ BUFLEN \in Nat /\ strlen(b) \in 0 .. BUFLEN
    BY StrlenEnds, LineAssumption DEF EndsAt
  <1>2. \A k \in 1 .. strlen(b) : k - 1 \in Index /\ b[k - 1] \in Marks
    BY <1>1 DEF EndsAt, Buffers, Chars, Marks, Index
  <1>3. Text(b) \in [1 .. strlen(b) -> Marks]
    BY <1>2 DEF Text
  <1>4. strlen(b) \in Nat
    BY <1>1
  <1>5. Text(b) \in Strings
    BY <1>3, <1>4, SeqDef DEF Strings
  <1>6. Len(Text(b)) = strlen(b)
    BY <1>3, <1>4, <1>5, LenProperties DEF Strings
  <1>7. QED BY <1>1, <1>5, <1>6 DEF Text

\* A string written over a buffer.
LEMMA WrittenIs ==
    ASSUME NEW b \in Buffers, NEW s \in Strings
    PROVE  /\ Written(b, s) \in Buffers
           /\ Len(s) \in Nat
           /\ \A k \in Index : k < Len(s) => Written(b, s)[k] = s[k + 1] /\ s[k + 1] \in Marks
           /\ \A k \in Index : k >= Len(s) => Written(b, s)[k] = b[k]
  <1>1. BUFLEN \in Nat /\ Len(s) \in Nat /\ \A n \in 1 .. Len(s) : s[n] \in Marks
    BY LineAssumption, LenProperties, ElementOfSeq DEF Strings
  <1>2. \A k \in Index : k < Len(s) => s[k + 1] \in Marks
    BY <1>1 DEF Index
  <1>3. \A k \in Index : Written(b, s)[k] = IF k < Len(s) THEN s[k + 1] ELSE b[k]
    BY DEF Written
  <1>4. Written(b, s) \in Buffers
    BY <1>1, <1>2, MarksAreChars DEF Written, Buffers, Index
  <1>5. QED BY <1>1, <1>2, <1>3, <1>4 DEF Index

LEMMA EmptyBufIs == EmptyBuf \in Buffers /\ strlen(EmptyBuf) = 0 /\ Text(EmptyBuf) = << >>
  <1>1. EmptyBuf \in Buffers
    BY DEF EmptyBuf, Buffers, Chars
  <1>2. EndsAt(EmptyBuf, 0)
    BY LineAssumption DEF EndsAt, EmptyBuf, Index
  <1>3. strlen(EmptyBuf) = 0
    BY <1>2, StrlenIs
  <1>4. Text(EmptyBuf) \in Strings /\ Len(Text(EmptyBuf)) = 0
    BY <1>1, <1>3, TextIsString
  <1>5. QED BY <1>1, <1>3, <1>4, EmptySeq DEF Strings

\* A line written into an empty buffer is its text.
LEMMA WrittenLine ==
    ASSUME NEW s \in Lines
    PROVE  /\ strlen(Written(EmptyBuf, s)) = Len(s)
           /\ Text(Written(EmptyBuf, s)) = s
           /\ \A k \in Index : k >= Len(s) => Written(EmptyBuf, s)[k] = NUL
  <1> DEFINE b == Written(EmptyBuf, s)
  <1>1. s \in Strings /\ Len(s) < BUFLEN /\ BUFLEN \in Nat /\ Len(s) \in Nat
    BY LineAssumption, LenProperties DEF Lines, Strings
  <1>2. /\ b \in Buffers
        /\ \A k \in Index : k < Len(s) => b[k] = s[k + 1] /\ s[k + 1] \in Marks
        /\ \A k \in Index : k >= Len(s) => b[k] = NUL
    BY <1>1, EmptyBufIs, WrittenIs DEF EmptyBuf
  <1> HIDE DEF b
  <1>3. EndsAt(b, Len(s))
    BY <1>1, <1>2, MarksAreChars DEF EndsAt, Index
  <1>4. strlen(b) = Len(s)
    BY <1>3, StrlenIs
  <1>5. /\ Text(b) \in Strings /\ Len(Text(b)) = Len(s)
        /\ \A k \in 1 .. Len(s) : Text(b)[k] = b[k - 1]
    BY <1>2, <1>4, TextIsString
  <1>6. \A k \in 1 .. Len(s) : Text(b)[k] = s[k]
    <2> TAKE k \in 1 .. Len(s)
    <2>1. k - 1 \in Index /\ k - 1 < Len(s) /\ (k - 1) + 1 = k
      BY <1>1 DEF Index
    <2>2. b[k - 1] = s[(k - 1) + 1]
      BY <1>2, <2>1
    <2>3. QED BY <1>5, <2>1, <2>2
  <1>7. Text(b) = s
    BY <1>1, <1>5, <1>6, SeqEqual DEF Strings
  <1>8. QED BY <1>2, <1>4, <1>7 DEF b

-----------------------------------------------------------------------------
(***************************************************************************)
(* The names that complete a word.                                         *)
(***************************************************************************)
\* The first n names, from which the ones that complete the word are taken.
Filtered(found, word, names, n) ==
    found = [k \in 0 .. n |->
               IF k = 0 THEN << >>
               ELSE IF strncmp(word, names[k]) THEN Append(found[k - 1], names[k])
               ELSE found[k - 1]]

LEMMA FilteredExists ==
    ASSUME NEW word, NEW names, NEW n \in Nat
    PROVE  \E found : Filtered(found, word, names, n)
  <1> DEFINE Failing == {k \in Nat : ~\E found : Filtered(found, word, names, k)}
  <1>1. SUFFICES ASSUME n \in Failing PROVE FALSE
    OBVIOUS
  <1>2. PICK k \in Failing : \A m \in Failing : k <= m
    BY <1>1, LeastNumber
  <1>3. CASE k = 0
    <2>1. Filtered([m \in 0 .. 0 |-> << >>], word, names, 0)
      BY DEF Filtered
    <2>2. QED BY <1>2, <1>3, <2>1
  <1>4. CASE k # 0
    <2>1. k - 1 \in Nat /\ k - 1 \notin Failing
      BY <1>2, <1>4
    <2>2. PICK f : Filtered(f, word, names, k - 1)
      BY <2>1
    <2> DEFINE last == IF strncmp(word, names[k]) THEN Append(f[k - 1], names[k]) ELSE f[k - 1]
               g == [m \in 0 .. k |-> IF m = k THEN last ELSE f[m]]
               h == [m \in 0 .. k |->
                       IF m = 0 THEN << >>
                       ELSE IF strncmp(word, names[m]) THEN Append(g[m - 1], names[m])
                       ELSE g[m - 1]]
    <2>3. \A m \in 0 .. k - 1 :
            f[m] = IF m = 0 THEN << >>
                   ELSE IF strncmp(word, names[m]) THEN Append(f[m - 1], names[m])
                   ELSE f[m - 1]
      BY <2>2, Zenon DEF Filtered
    <2>4. ASSUME NEW m \in 0 .. k PROVE g[m] = h[m]
      <3>1. CASE m = k
        <4>1. k - 1 \in 0 .. k /\ k - 1 # k
          BY <1>4, <2>1
        <4>2. g[k - 1] = f[k - 1]
          BY <4>1
        <4>3. QED BY <1>4, <3>1, <4>2, <2>4
      <3>2. CASE m = 0
        <4>1. m \in 0 .. k - 1 /\ m # k
          BY <2>1, <3>2
        <4>2. g[m] = f[m] /\ h[m] = << >>
          BY <2>4, <3>2, <4>1
        <4>3. QED BY <2>3, <3>2, <4>1, <4>2
      <3>3. CASE m # k /\ m # 0
        <4>1. m \in 0 .. k - 1 /\ m - 1 \in 0 .. k /\ m - 1 # k
          BY <2>1, <3>3
        <4>2. g[m] = f[m] /\ g[m - 1] = f[m - 1]
          BY <3>3, <4>1
        <4>3. QED BY <2>3, <2>4, <3>3, <4>1, <4>2
      <3>4. QED BY <3>1, <3>2, <3>3
    <2>5. g = h
      BY <2>4
    <2>6. Filtered(g, word, names, k)
      BY <2>5 DEF Filtered
    <2>7. QED BY <1>2, <2>6
  <1>5. QED BY <1>3, <1>4

LEMMA WithPrefixFiltered ==
    ASSUME NEW word, NEW T, NEW names \in Seq(T)
    PROVE  \E found : /\ Filtered(found, word, names, Len(names))
                      /\ WithPrefix(word, names) = found[Len(names)]
  <1> DEFINE found == CHOOSE f : Filtered(f, word, names, Len(names))
  <1>1. Filtered(found, word, names, Len(names))
    BY LenProperties, FilteredExists
  <1>2. WithPrefix(word, names) = found[Len(names)]
    BY Zenon DEF WithPrefix, Filtered
  <1>3. QED BY <1>1, <1>2

\* They are names, and begin with the word.
LEMMA WithPrefixNames ==
    ASSUME NEW word, NEW T, NEW names \in Seq(T)
    PROVE  WithPrefix(word, names) \in Seq({name \in T :
              /\ strncmp(word, name)
              /\ \E n \in DOMAIN names : name = names[n]})
  <1> DEFINE Fitting == {name \in T : /\ strncmp(word, name)
                                      /\ \E n \in DOMAIN names : name = names[n]}
  <1>1. PICK found : /\ Filtered(found, word, names, Len(names))
                     /\ WithPrefix(word, names) = found[Len(names)]
    BY WithPrefixFiltered
  <1> DEFINE Failing == {k \in 0 .. Len(names) : found[k] \notin Seq(Fitting)}
  <1>2. Len(names) \in Nat /\ DOMAIN names = 1 .. Len(names)
    BY LenProperties
  <1>3. SUFFICES Failing = {}
    BY <1>1, <1>2
  <1>4. SUFFICES ASSUME Failing # {} PROVE FALSE
    OBVIOUS
  <1>5. PICK k \in Failing : \A m \in Failing : k <= m
    BY Failing \subseteq Nat, <1>2, <1>4, LeastNumber
  <1>6. \A m \in 0 .. Len(names) :
          found[m] = IF m = 0 THEN << >>
                     ELSE IF strncmp(word, names[m]) THEN Append(found[m - 1], names[m])
                     ELSE found[m - 1]
    BY <1>1, Zenon DEF Filtered
  <1>7. CASE k = 0
    BY <1>5, <1>6, <1>7, EmptySeq
  <1>8. CASE k # 0
    <2>1. k \in 1 .. Len(names) /\ k - 1 \in 0 .. Len(names) /\ k - 1 \notin Failing
      BY <1>2, <1>5, <1>8
    <2>2. found[k - 1] \in Seq(Fitting)
      BY <2>1
    <2>3. CASE strncmp(word, names[k])
      <3>1. names[k] \in T
        BY <2>1, ElementOfSeq
      <3>2. names[k] \in Fitting
        BY <1>2, <2>1, <2>3, <3>1
      <3>3. Append(found[k - 1], names[k]) \in Seq(Fitting)
        BY <2>2, <3>2, AppendProperties
      <3>4. found[k] = Append(found[k - 1], names[k])
        BY <1>6, <1>8, <2>1, <2>3, k \in 0 .. Len(names)
      <3>5. QED BY <1>5, <3>3, <3>4
    <2>4. CASE ~strncmp(word, names[k])
      <3>1. found[k] = found[k - 1]
        BY <1>6, <1>8, <2>1, <2>4, k \in 0 .. Len(names)
      <3>2. QED BY <1>5, <2>2, <3>1
    <2>5. QED BY <2>3, <2>4
  <1>9. QED BY <1>7, <1>8

-----------------------------------------------------------------------------
(***************************************************************************)
(* The words of a line that does not end with a blank, which is when Tab   *)
(* completes it: the last one goes up to the end.                          *)
(***************************************************************************)
Completed(s) == s \in Strings /\ Len(s) > 0 /\ s[Len(s)] # Blank

LEMMA StartsFinite ==
    ASSUME NEW s, Completed(s)
    PROVE  IsFiniteSet(WordStarts(s))
  <1>1. Len(s) \in Nat
    BY LenProperties DEF Completed, Strings
  <1>2. IsFiniteSet(1 .. Len(s))
    BY <1>1, FS_Interval
  <1>3. WordStarts(s) \subseteq 1 .. Len(s)
    BY DEF WordStarts
  <1>4. QED BY <1>2, <1>3, FS_Subset

LEMMA WordsOf ==
    ASSUME NEW s, Completed(s)
    PROVE  /\ LastStart(s) \in 1 .. Len(s)
           /\ LastStart(s) \in WordStarts(s)
           /\ Word(s, LastStart(s)) = SubSeq(s, LastStart(s), Len(s))
           /\ Len(strsplit(s)) = Cardinality(WordStarts(s))
  <1>1. Len(s) \in Nat \ {0} /\ s[Len(s)] # Blank
    BY LenProperties DEF Completed, Strings
  <1> DEFINE Whole == {k \in 1 .. Len(s) : \A m \in k .. Len(s) : s[m] # Blank}
  <1>2. Whole \subseteq Nat /\ Len(s) \in Whole
    BY <1>1
  <1>3. PICK k \in Whole : \A m \in Whole : k <= m
    BY <1>2, LeastNumber
  <1>4. k \in 1 .. Len(s) /\ \A m \in k .. Len(s) : s[m] # Blank
    BY <1>3
  <1>5. k = 1 \/ s[k - 1] = Blank
    <2>1. SUFFICES ASSUME k # 1, s[k - 1] # Blank PROVE FALSE
      OBVIOUS
    <2>2. k - 1 \in 1 .. Len(s) /\ \A m \in k - 1 .. Len(s) : m = k - 1 \/ m \in k .. Len(s)
      BY <1>1, <1>4, <2>1
    <2>3. k - 1 \in Whole
      BY <1>4, <2>1, <2>2
    <2>4. k <= k - 1
      BY <1>3, <2>3, Zenon
    <2>5. k \in Int
      BY <1>4
    <2>6. QED BY <2>4, <2>5
  <1> HIDE DEF Whole
  <1>6. k \in WordStarts(s)
    BY <1>1, <1>4, <1>5 DEF WordStarts
  <1>7. \A n \in WordStarts(s) : n <= k
    <2>1. SUFFICES ASSUME NEW n \in WordStarts(s), n > k PROVE FALSE
      BY <1>1, <1>4 DEF WordStarts
    <2>2. n \in 1 .. Len(s) /\ s[n - 1] = Blank
      BY <1>1, <1>4, <2>1 DEF WordStarts
    <2>3. n - 1 \in k .. Len(s)
      BY <1>1, <1>4, <2>1, <2>2
    <2>4. QED BY <1>4, <2>2, <2>3
  <1>8. LastStart(s) = k
    <2>1. WordStarts(s) \subseteq Int
      BY <1>1 DEF WordStarts
    <2>2. QED BY <1>6, <1>7, <2>1, LargestIs DEF LastStart
  <1>9. Word(s, k) = SubSeq(s, k, Len(s))
    <2> DEFINE Ends == {n \in k .. Len(s) : n = Len(s) \/ s[n + 1] = Blank}
    <2>1. Ends = {Len(s)}
      <3>1. \A n \in k .. Len(s) : n # Len(s) => s[n + 1] # Blank
        <4>1. \A n \in k .. Len(s) : n # Len(s) => n + 1 \in k .. Len(s)
          BY <1>1, <1>4
        <4>2. QED BY <1>4, <4>1
      <3>2. Len(s) \in k .. Len(s)
        BY <1>1, <1>4
      <3>3. QED BY <3>1, <3>2
    <2>2. /\ Ends \subseteq Int /\ Len(s) \in Ends
          /\ \A m \in Ends : Len(s) <= m
      BY <1>1, <2>1
    <2>3. Word(s, k) = SubSeq(s, k, Least(Ends))
      BY DEF Word
    <2> HIDE DEF Ends
    <2>4. Least(Ends) = Len(s)
      BY <2>2, LeastIs
    <2>5. QED BY <2>3, <2>4
  <1>10. Len(strsplit(s)) = Cardinality(WordStarts(s))
    <2>1. IsFiniteSet(WordStarts(s))
      BY StartsFinite
    <2>2. Cardinality(WordStarts(s)) \in Nat
      BY <2>1, FS_CardinalityType
    <2>3. QED BY <2>2 DEF strsplit
  <1>11. QED BY <1>4, <1>6, <1>8, <1>9, <1>10

\* The only word of a line without blanks in front is the line.
LEMMA OneWordStart ==
    ASSUME NEW s, Completed(s), s[1] # Blank, Len(strsplit(s)) = 1
    PROVE  LastStart(s) = 1
  <1>1. Cardinality(WordStarts(s)) = 1 /\ LastStart(s) \in WordStarts(s)
    BY WordsOf
  <1>2. Len(s) \in Nat \ {0}
    BY LenProperties DEF Completed, Strings
  <1>3. 1 \in WordStarts(s)
    BY <1>2 DEF WordStarts
  <1>4. IsFiniteSet(WordStarts(s))
    BY StartsFinite
  <1>5. PICK x : WordStarts(s) = {x}
    BY <1>1, <1>4, FS_Singleton
  <1>6. QED BY <1>1, <1>3, <1>5

\* The names found are names that begin with the word.
LEMMA NotShorter ==
    ASSUME NEW word, NEW names \in Seq(Seq(Letters)), NEW n \in DOMAIN WithPrefix(word, names)
    PROVE  /\ WithPrefix(word, names)[n] \in Seq(Letters)
           /\ Len(word) <= Len(WithPrefix(word, names)[n])
           /\ SubSeq(WithPrefix(word, names)[n], 1, Len(word)) = word
  <1> DEFINE found == WithPrefix(word, names)
             Fitting == {name \in Seq(Letters) :
                           /\ strncmp(word, name)
                           /\ \E m \in DOMAIN names : name = names[m]}
  <1>1. found \in Seq(Fitting)
    BY WithPrefixNames
  <1> HIDE DEF found
  <1>2. n \in 1 .. Len(found)
    BY <1>1, LenProperties DEF found
  <1>3. found[n] \in Fitting
    BY <1>1, <1>2, ElementOfSeq
  <1>4. QED BY <1>3 DEF strncmp, found

\* A string that begins with the text of the line.
Extends(s) == Len(s) >= strlen(buf) /\ SubSeq(s, 1, strlen(buf)) = Text(buf)

\* What Tab finds begins with the line, except for one word behind blanks.
LEMMA CompletionsAre ==
    ASSUME buf \in Buffers, Completed(Text(buf))
    PROVE  /\ Completions \in Seq(Strings)
           /\ \A n \in DOMAIN Completions : Extends(Completions[n]) \/ BehindBlanks
  <1> DEFINE line == Text(buf)
             start == LastStart(line)
             word == Word(line, start)
             before == SubSeq(line, 1, start - 1)
  <1>1. /\ line \in Strings /\ Len(line) = strlen(buf) /\ strlen(buf) \in Nat \ {0}
        /\ line[1] = buf[0]
    BY TextIsString DEF Completed
  <1>2. /\ start \in 1 .. Len(line)
        /\ word = SubSeq(line, start, Len(line))
    BY WordsOf
  <1>3. \A k \in 1 .. Len(line) : line[k] \in Marks
    BY <1>1, ElementOfSeq DEF Strings
  <1>4. /\ word \in Strings /\ Len(word) = strlen(buf) - start + 1
        /\ \A k \in 1 .. Len(word) : word[k] = line[start + k - 1]
    <2>1. start \in Int /\ Len(line) \in Int /\ start <= Len(line)
          /\ \A k \in start .. Len(line) : line[k] \in Marks
      BY <1>1, <1>2, <1>3
    <2>2. QED BY <1>1, <1>2, <2>1, SubSeqProperties DEF Strings
  <1>5. /\ before \in Strings /\ Len(before) = start - 1
        /\ \A k \in 1 .. Len(before) : before[k] = line[k]
    <2>1. 1 \in Int /\ start - 1 \in Int /\ \A k \in 1 .. start - 1 : line[k] \in Marks
      BY <1>1, <1>2, <1>3
    <2>2. QED BY <1>1, <1>2, <2>1, SubSeqProperties DEF Strings
  <1> HIDE DEF line, start, word, before
  <1>6. Letters \subseteq Marks
    BY DEF Marks
  <1>7. CASE OneWord
    <2> DEFINE typedWord == IF BehindBlanks THEN << >> ELSE word
    <2>1. Completions = WithPrefix(typedWord, CommandNames)
      BY <1>7, Zenon DEF Completions, line, start, word
    <2>2. CommandNames \in Seq(Seq(Letters))
      BY LineAssumption
    <2>3. Completions \in Seq(Strings)
      <3>1. Completions \in Seq({name \in Seq(Letters) :
                           /\ strncmp(typedWord, name)
                           /\ \E m \in DOMAIN CommandNames : name = CommandNames[m]})
        BY <2>1, <2>2, WithPrefixNames
      <3>2. Seq(Letters) \subseteq Strings
        BY <1>6, SeqMonotonic DEF Strings
      <3>3. QED BY <3>1, <3>2, SeqMonotonic
    <2>4. ASSUME ~BehindBlanks, NEW n \in DOMAIN Completions PROVE Extends(Completions[n])
      <3>1. start = 1
        BY <1>1, <1>7, <2>4, OneWordStart DEF line, start, OneWord, BehindBlanks
      <3>2. Len(word) = strlen(buf) /\ \A k \in 1 .. Len(word) : word[k] = line[k]
        BY <1>1, <1>4, <3>1
      <3>3. word = line
        BY <1>1, <1>4, <3>2, SeqEqual DEF Strings
      <3>4. /\ Len(word) <= Len(Completions[n])
            /\ SubSeq(Completions[n], 1, Len(word)) = word
        BY <2>1, <2>2, <2>4, NotShorter
      <3>5. Len(Completions[n]) \in Nat
        BY <2>3, LenProperties, ElementOfSeq DEF Strings
      <3>6. QED BY <1>1, <3>2, <3>3, <3>4, <3>5 DEF Extends, line
    <2>5. QED BY <2>3, <2>4
  <1>8. CASE ~OneWord
    <2> DEFINE names == WithPrefix(word, Programs)
    <2>1. Completions = [n \in DOMAIN names |-> before \o names[n]]
      BY <1>8, Zenon DEF Completions, line, start, word, before
    <2>2. Programs \in Seq(Seq(Letters))
      BY LineAssumption
    <2>3. names \in Seq(Seq(Letters))
      <3>1. names \in Seq({name \in Seq(Letters) :
                           /\ strncmp(word, name)
                           /\ \E m \in DOMAIN Programs : name = Programs[m]})
        BY <2>2, WithPrefixNames
      <3>2. QED BY <3>1, SeqMonotonic
    <2>4. \A n \in DOMAIN names : /\ Len(word) <= Len(names[n]) /\ names[n] \in Seq(Letters)
                                 /\ SubSeq(names[n], 1, Len(word)) = word
      BY <2>2, NotShorter
    <2> HIDE DEF names
    <2>5. Len(names) \in Nat /\ DOMAIN names = 1 .. Len(names)
      BY <2>3, LenProperties
    <2>6. ASSUME NEW n \in DOMAIN names
          PROVE  before \o names[n] \in Strings /\ Extends(before \o names[n])
      <3> DEFINE name == names[n]
                 both == before \o name
                 begin == SubSeq(both, 1, strlen(buf))
      <3>1. name \in Strings /\ Len(name) \in Nat
        BY <1>6, <2>4, SeqMonotonic, LenProperties DEF Strings
      <3>2. /\ both \in Strings /\ Len(both) = Len(before) + Len(name)
            /\ \A k \in 1 .. Len(before) + Len(name) :
                 both[k] = IF k <= Len(before) THEN before[k] ELSE name[k - Len(before)]
        BY <1>5, <3>1, ConcatProperties DEF Strings
      <3>3. Len(word) <= Len(name) /\ SubSeq(name, 1, Len(word)) = word
        BY <2>4
      <3>4. \A k \in 1 .. Len(word) : name[k] = word[k]
        <4>1. \A k \in 1 .. Len(word) : name[k] \in Marks
          BY <1>1, <1>2, <1>4, <3>1, <3>3, ElementOfSeq DEF Strings
        <4>2. 1 \in Int /\ Len(word) \in Int
          BY <1>1, <1>2, <1>4
        <4> HIDE DEF name
        <4>3. \A k \in 1 .. Len(word) - 1 + 1 : SubSeq(name, 1, Len(word))[k] = name[1 + k - 1]
          BY <4>1, <4>2, SubSeqProperties
        <4>4. QED BY <3>3, <4>2, <4>3
      <3> HIDE DEF name, both
      <3>5. Len(both) >= strlen(buf)
        BY <1>1, <1>2, <1>4, <1>5, <3>1, <3>2, <3>3
      <3>6. ASSUME NEW k \in 1 .. strlen(buf) PROVE both[k] = line[k] /\ both[k] \in Marks
        <4>1. k \in 1 .. Len(before) + Len(name) /\ k \in 1 .. Len(line)
          BY <1>1, <1>2, <1>4, <1>5, <3>1, <3>2, <3>5
        <4>2. CASE k <= Len(before)
          <5>1. k \in 1 .. Len(before)
            BY <1>1, <1>2, <1>5, <4>2
          <5>2. QED BY <1>3, <1>5, <3>2, <4>1, <4>2, <5>1
        <4>3. CASE ~(k <= Len(before))
          <5>1. /\ k - Len(before) \in 1 .. Len(word)
                /\ start + (k - Len(before)) - 1 = k
            BY <1>1, <1>2, <1>4, <1>5, <4>3
          <5>2. both[k] = name[k - Len(before)]
            BY <3>2, <4>1, <4>3
          <5>3. name[k - Len(before)] = line[k]
            BY <1>4, <3>4, <5>1
          <5>4. QED BY <1>3, <4>1, <5>2, <5>3
        <4>4. QED BY <4>2, <4>3
      <3>7. /\ begin \in Strings /\ Len(begin) = strlen(buf)
            /\ \A k \in 1 .. strlen(buf) : begin[k] = both[k]
        <4>1. 1 \in Int /\ strlen(buf) \in Int /\ 1 <= strlen(buf)
              /\ \A k \in 1 .. strlen(buf) : both[k] \in Marks
          BY <1>1, <3>6
        <4>2. /\ begin \in Seq(Marks)
              /\ Len(begin) = IF 1 <= strlen(buf) THEN strlen(buf) - 1 + 1 ELSE 0
              /\ \A k \in 1 .. strlen(buf) - 1 + 1 : begin[k] = both[1 + k - 1]
          BY <4>1, SubSeqProperties
        <4> HIDE DEF begin
        <4>3. QED BY <4>1, <4>2 DEF Strings
      <3> HIDE DEF begin
      <3>8. begin = line
        BY <1>1, <3>6, <3>7, SeqEqual DEF Strings
      <3>9. QED BY <3>2, <3>5, <3>8 DEF Extends, begin, both, name, line
    <2>7. Completions \in Seq(Strings)
      <3>1. Completions \in [1 .. Len(names) -> Strings]
        BY <2>1, <2>5, <2>6
      <3>2. QED BY <2>5, <3>1, SeqDef
    <2>8. QED BY <2>1, <2>6, <2>7
  <1>9. QED BY <1>7, <1>8

-----------------------------------------------------------------------------
(***************************************************************************)
(* Types.                                                                  *)
(***************************************************************************)
Cells == {"FOS", ">"} \cup Chars

BufferTypes ==
    /\ buf \in Buffers
    /\ i \in Nat /\ lastIndex \in Nat /\ typed \in Nat
    /\ edits \in {"end", "inside", "behind"}
PrefixTypes ==
    /\ prefixes \in Seq(Strings) /\ prefixIdx \in Nat
    /\ ~overrun => \A n \in DOMAIN prefixes : Len(prefixes[n]) < BUFLEN
HistoryTypes ==
    /\ history \in Seq(Lines) /\ entered \in Seq(Lines)
    /\ Len(history) <= HISTORY_MAX + 1
    /\ commandidx \in 0 .. HISTORY_MAX + 1
ScreenTypes == cells \in Seq(Cells) /\ pos \in Nat

LEMMA LastAtIs ==
    ASSUME i \in Nat, lastIndex \in Nat
    PROVE  lastAt \in Nat /\ lastAt = IF i >= lastIndex THEN i ELSE lastIndex
  BY LargestOfTwo DEF lastAt

LEMMA EmptyLine == << >> \in Lines /\ << >> \in Strings /\ Len(<< >>) = 0
  BY LineAssumption, EmptySeq DEF Lines, Strings

LEMMA WorseTypes ==
    ASSUME BufferTypes
    PROVE  /\ Edited \in {"end", "inside", "behind"}
           /\ Worse("inside") \in {"end", "inside", "behind"}
  BY DEF BufferTypes, Edited, Worse

\* The lines an arrow key may show.
LEMMA RecallableLines ==
    ASSUME HistoryTypes, NEW n \in Nat
    PROVE  Recallable(n) \subseteq Lines
  <1>1. HISTORY_MAX \in Nat /\ Len(history) \in Nat
    BY LineAssumption, LenProperties DEF HistoryTypes
  <1>2. CASE n < Len(history)
    <2>1. n + 1 \in 1 .. Len(history)
      BY <1>1, <1>2
    <2>2. history[n + 1] \in Lines
      BY <2>1, ElementOfSeq DEF HistoryTypes
    <2>3. QED BY <1>2, <2>2 DEF Recallable
  <1>3. CASE ~(n < Len(history)) /\ n <= HISTORY_MAX
    BY <1>3, EmptyLine DEF Recallable
  <1>4. CASE ~(n < Len(history)) /\ ~(n <= HISTORY_MAX)
    <2>1. Beyond \subseteq Lines
      BY LineAssumption DEF Lines, Strings, Marks
    <2>2. QED BY <1>4, <2>1 DEF Recallable
  <1>5. QED BY <1>2, <1>3, <1>4

\* The names that another Tab shows.
LEMMA PrefixLines ==
    ASSUME PrefixTypes, ~overrun, NEW n \in Nat
    PROVE  PrefixAt(n) \in Lines
  <1>1. Len(prefixes) \in Nat /\ DOMAIN prefixes = 1 .. Len(prefixes)
    BY LenProperties DEF PrefixTypes
  <1>2. CASE n < Len(prefixes)
    <2>1. n + 1 \in 1 .. Len(prefixes)
      BY <1>1, <1>2
    <2>2. prefixes[n + 1] \in Strings /\ Len(prefixes[n + 1]) < BUFLEN
      BY <1>1, <2>1, ElementOfSeq DEF PrefixTypes
    <2>3. QED BY <1>2, <2>2 DEF PrefixAt, Lines
  <1>3. CASE ~(n < Len(prefixes))
    BY <1>3, EmptyLine DEF PrefixAt
  <1>4. QED BY <1>2, <1>3

\* What the screen shows after writing s at p, and after rubbing out n cells.
LEMMA ShownIs ==
    ASSUME NEW row \in Seq(Cells), NEW p \in Nat, NEW s \in Seq(Cells)
    PROVE  /\ Shown(row, p, s) \in Seq(Cells)
           /\ Len(Shown(row, p, s)) \in Nat
           /\ Len(Shown(row, p, s)) =
                IF Len(row) >= p + Len(s) THEN Len(row) ELSE p + Len(s)
           /\ \A k \in 1 .. Len(Shown(row, p, s)) :
                Shown(row, p, s)[k] =
                  IF k \in p + 1 .. p + Len(s) THEN s[k - p]
                  ELSE IF k <= Len(row) THEN row[k] ELSE Blank
  <1>1. Len(row) \in Nat /\ Len(s) \in Nat
    BY LenProperties
  <1> DEFINE n == IF Len(row) >= p + Len(s) THEN Len(row) ELSE p + Len(s)
             f == [k \in 1 .. n |-> IF k \in p + 1 .. p + Len(s) THEN s[k - p]
                                    ELSE IF k <= Len(row) THEN row[k] ELSE Blank]
  <1>2. n \in Nat
    BY <1>1
  <1>3. Largest({Len(row), p + Len(s)}) = n
    BY <1>1, LargestOfTwo
  <1>4. Shown(row, p, s) = f
    BY <1>3, Zenon DEF Shown
  <1> HIDE DEF n
  <1>5. ASSUME NEW k \in 1 .. n PROVE f[k] \in Cells
    <2>1. CASE k \in p + 1 .. p + Len(s)
      <3>1. k - p \in 1 .. Len(s)
        BY <1>1, <1>2, <2>1
      <3>2. s[k - p] \in Cells
        BY <3>1, ElementOfSeq
      <3>3. QED BY <2>1, <3>2
    <2>2. CASE k \notin p + 1 .. p + Len(s) /\ k <= Len(row)
      <3>1. k \in 1 .. Len(row)
        BY <1>1, <1>2, <2>2
      <3>2. row[k] \in Cells
        BY <3>1, ElementOfSeq
      <3>3. QED BY <2>2, <3>2
    <2>3. CASE k \notin p + 1 .. p + Len(s) /\ ~(k <= Len(row))
      BY <2>3 DEF Cells, Chars
    <2>4. QED BY <2>1, <2>2, <2>3
  <1>6. f \in [1 .. n -> Cells]
    BY <1>5
  <1>7. f \in Seq(Cells)
    BY <1>2, <1>6, SeqDef
  <1>8. Len(f) = n
    BY <1>2, <1>6, <1>7, LenProperties
  <1>9. QED BY <1>2, <1>4, <1>7, <1>8 DEF n

LEMMA RubbedIs ==
    ASSUME NEW row \in Seq(Cells), NEW p \in Nat, NEW n \in Nat
    PROVE  /\ Rubbed(row, p, n) \in Seq(Cells)
           /\ Len(Rubbed(row, p, n)) = Len(row)
           /\ \A k \in 1 .. Len(row) :
                Rubbed(row, p, n)[k] = IF k > p - n /\ k <= p THEN Blank ELSE row[k]
  <1>1. Len(row) \in Nat /\ \A k \in 1 .. Len(row) : row[k] \in Cells
    BY LenProperties, ElementOfSeq
  <1>2. Rubbed(row, p, n) \in [1 .. Len(row) -> Cells]
    BY <1>1 DEF Rubbed, Cells, Chars
  <1>3. Rubbed(row, p, n) \in Seq(Cells)
    BY <1>1, <1>2, SeqDef
  <1>4. Len(Rubbed(row, p, n)) = Len(row)
    BY <1>1, <1>2, <1>3, LenProperties
  <1>5. QED BY <1>3, <1>4 DEF Rubbed

LEMMA RedrawIs ==
    ASSUME ScreenTypes, NEW n \in Nat, NEW s \in Strings, Redraw(n, s)
    PROVE  /\ ScreenTypes'
           /\ Back(pos, n) \in Nat /\ pos' = Back(pos, n) + Len(s)
           /\ Len(s) \in Nat /\ Len(cells) \in Nat /\ Len(cells') \in Nat
           /\ Len(cells') = IF Len(cells) >= pos' THEN Len(cells) ELSE pos'
           /\ \A k \in 1 .. Len(cells') :
                cells'[k] = IF k \in Back(pos, n) + 1 .. pos' THEN s[k - Back(pos, n)]
                            ELSE IF k > Len(cells) \/ (k > pos - n /\ k <= pos) THEN Blank
                            ELSE cells[k]
  <1>1. cells \in Seq(Cells) /\ pos \in Nat /\ s \in Seq(Cells)
    BY MarksAreChars, SeqMonotonic DEF ScreenTypes, Strings, Cells
  <1>2. Back(pos, n) \in Nat
    BY <1>1 DEF Back
  <1>3. Len(s) \in Nat /\ Len(cells) \in Nat
    BY <1>1, LenProperties
  <1> DEFINE row == Rubbed(cells, pos, n)
             p == Back(pos, n)
  <1>4. /\ row \in Seq(Cells) /\ Len(row) = Len(cells)
        /\ \A k \in 1 .. Len(cells) : row[k] = IF k > pos - n /\ k <= pos THEN Blank ELSE cells[k]
    BY <1>1, RubbedIs
  <1>5. cells' = Shown(row, p, s) /\ pos' = p + Len(s)
    BY DEF Redraw
  <1> HIDE DEF row, p
  <1>6. p \in Nat
    BY <1>2 DEF p
  <1>7. /\ Shown(row, p, s) \in Seq(Cells)
        /\ Len(Shown(row, p, s)) \in Nat
        /\ Len(Shown(row, p, s)) =
             IF Len(row) >= p + Len(s) THEN Len(row) ELSE p + Len(s)
        /\ \A k \in 1 .. Len(Shown(row, p, s)) :
             Shown(row, p, s)[k] =
               IF k \in p + 1 .. p + Len(s) THEN s[k - p]
               ELSE IF k <= Len(row) THEN row[k] ELSE Blank
    BY <1>1, <1>4, <1>6, ShownIs
  <1>8. ScreenTypes'
    BY <1>3, <1>5, <1>6, <1>7 DEF ScreenTypes
  <1>9. ASSUME NEW k \in 1 .. Len(cells')
        PROVE  cells'[k] = IF k \in p + 1 .. pos' THEN s[k - p]
                           ELSE IF k > Len(cells) \/ (k > pos - n /\ k <= pos) THEN Blank
                           ELSE cells[k]
    <2>1. cells'[k] = IF k \in p + 1 .. pos' THEN s[k - p]
                      ELSE IF k <= Len(cells) THEN row[k] ELSE Blank
      BY <1>4, <1>5, <1>7, <1>9
    <2>2. k \in Nat \ {0}
      BY <1>5, <1>7, <1>9
    <2>3. k <= Len(cells) => row[k] = IF k > pos - n /\ k <= pos THEN Blank ELSE cells[k]
      BY <1>3, <1>4, <2>2
    <2>4. QED BY <1>3, <2>1, <2>2, <2>3
  <1>10. QED
    BY <1>3, <1>4, <1>5, <1>6, <1>7, <1>8, <1>9 DEF p

-----------------------------------------------------------------------------
(***************************************************************************)
(* The line and the screen.                                                *)
(***************************************************************************)
\* A row of the screen with the prompt and a text on it, and nothing else.
RowShows(row, text) ==
    /\ Len(row) >= 2 + Len(text)
    /\ row[1] = "FOS" /\ row[2] = ">"
    /\ \A k \in 3 .. Len(text) + 2 : row[k] = text[k - 2]
    /\ \A k \in 1 .. Len(row) : k > Len(text) + 2 => row[k] = Blank

\* Nothing is left behind the text of a buffer.
Clean(b) == \A k \in Index : k >= strlen(b) => b[k] = NUL

\* While the keys only changed the end of the line, the cursor of the screen
\* is the one of the line as well.
EndShown ==
    edits = "end" /\ ~overrun =>
      Clean(buf) /\ RowShows(cells, Text(buf)) /\ pos = 2 + i

LineInv ==
    /\ BufferTypes /\ ScreenTypes
    /\ OverrunNeedsFullLine /\ EnterKeepsLine /\ EndShown

\* The keys are pressed at the end of the line.
AtEnd == edits = "end" /\ i = strlen(buf)

LEMMA EditedAtEnd ==
    ASSUME BufferTypes, Edited = "end"
    PROVE  AtEnd
  <1>1. strlen(buf) \in Nat
    BY StrlenEnds, LineAssumption DEF EndsAt
  <1>2. QED BY <1>1 DEF Edited, Worse, AtEnd, BufferTypes

LEMMA EditedInside ==
    ASSUME BufferTypes, Edited # "behind"
    PROVE  /\ edits # "behind"
           /\ i <= strlen(buf)
           /\ i = strlen(buf) => ~LeftOver(i + 1)
  <1>1. strlen(buf) \in Nat
    BY StrlenEnds, LineAssumption DEF EndsAt
  <1>2. QED BY <1>1 DEF Edited, Worse, BufferTypes

\* Rewriting the end of what a row shows.
LEMMA RedrawRow ==
    ASSUME ScreenTypes, NEW old \in Strings, RowShows(cells, old), pos = 2 + Len(old),
           NEW n \in 0 .. Len(old), NEW s \in Strings, Redraw(n, s),
           NEW new \in Strings, Len(new) = Len(old) - n + Len(s),
           \A k \in 1 .. Len(new) :
             new[k] = IF k <= Len(old) - n THEN old[k] ELSE s[k - (Len(old) - n)]
    PROVE  RowShows(cells', new) /\ pos' = 2 + Len(new)
  <1>1. Len(old) \in Nat /\ Len(s) \in Nat /\ Len(new) \in Nat /\ n \in Nat
    BY LenProperties DEF Strings
  <1>2. Back(pos, n) = 2 + Len(old) - n
    BY <1>1 DEF Back
  <1>3. /\ pos' = 2 + Len(new)
        /\ Len(cells) \in Nat /\ Len(cells') \in Nat
        /\ Len(cells') = IF Len(cells) >= pos' THEN Len(cells) ELSE pos'
    BY <1>1, <1>2, RedrawIs
  <1>4. \A k \in 1 .. Len(cells') :
          cells'[k] = IF k \in Back(pos, n) + 1 .. pos' THEN s[k - Back(pos, n)]
                      ELSE IF k > Len(cells) \/ (k > pos - n /\ k <= pos) THEN Blank
                      ELSE cells[k]
    BY <1>1, RedrawIs
  <1>5. Len(cells) >= 2 + Len(old) /\ cells[1] = "FOS" /\ cells[2] = ">"
    BY DEF RowShows
  <1>6. ASSUME NEW k \in 1 .. 2 + Len(old) - n
        PROVE  cells'[k] = cells[k]
    <2>0. k \in Nat /\ k >= 1 /\ k <= Back(pos, n) /\ Back(pos, n) <= 2 + Len(old)
      BY <1>1, <1>2
    <2>1. k \in 1 .. Len(cells')
      BY <1>1, <1>3, <1>5, <2>0, SMTT(60)
    <2>2. k \notin Back(pos, n) + 1 .. pos'
      BY <1>1, <1>2, <2>0
    <2>3. ~(k > Len(cells))
      BY <1>1, <1>3, <1>5, <1>2, <2>0
    <2>4. ~(k > pos - n)
      BY <1>1, <1>2, <2>0
    <2>5. QED BY <1>4, <2>1, <2>2, <2>3, <2>4
  <1>7. cells'[1] = "FOS" /\ cells'[2] = ">"
    <2>1. 1 \in 1 .. 2 + Len(old) - n /\ 2 \in 1 .. 2 + Len(old) - n
      BY <1>1
    <2>2. QED BY <1>5, <1>6, <2>1
  <1>8. ASSUME NEW k \in 3 .. Len(new) + 2 PROVE cells'[k] = new[k - 2]
    <2>1. /\ k \in Nat /\ k - 2 \in 1 .. Len(new) /\ k \in 1 .. Len(cells')
          /\ k <= pos'
      BY <1>1, <1>3
    <2>2. new[k - 2] = IF k - 2 <= Len(old) - n THEN old[k - 2] ELSE s[k - 2 - (Len(old) - n)]
      BY <2>1
    <2>3. CASE k - 2 <= Len(old) - n
      <3>1. k \in 1 .. 2 + Len(old) - n /\ k \in 3 .. Len(old) + 2
        BY <1>1, <2>1, <2>3
      <3>2. cells[k] = old[k - 2]
        BY <3>1 DEF RowShows
      <3>3. QED BY <1>6, <2>2, <2>3, <3>1, <3>2
    <2>4. CASE k - 2 > Len(old) - n
      <3>1. k \in Back(pos, n) + 1 .. pos' /\ k - Back(pos, n) = k - 2 - (Len(old) - n)
        BY <1>1, <1>2, <1>3, <2>1, <2>4, SMTT(60)
      <3>2. cells'[k] = s[k - Back(pos, n)]
        BY <1>4, <2>1, <3>1
      <3>3. ~(k - 2 <= Len(old) - n)
        BY <1>1, <2>1, <2>4
      <3>4. QED BY <2>2, <3>1, <3>2, <3>3
    <2>5. QED BY <1>1, <2>1, <2>3, <2>4
  <1>9. ASSUME NEW k \in 1 .. Len(cells'), k > Len(new) + 2 PROVE cells'[k] = Blank
    <2>1. k \notin Back(pos, n) + 1 .. pos'
      BY <1>1, <1>3, <1>9
    <2>2. CASE k > Len(cells) \/ (k > pos - n /\ k <= pos)
      BY <1>4, <2>1, <2>2
    <2>3. CASE ~(k > Len(cells) \/ (k > pos - n /\ k <= pos))
      <3>1. cells'[k] = cells[k]
        BY <1>4, <2>1, <2>3
      <3>2. k \in 1 .. Len(cells) /\ k > Len(old) + 2
        BY <1>1, <1>2, <1>3, <1>9, <2>3
      <3>3. QED BY <3>1, <3>2 DEF RowShows
    <2>4. QED BY <2>2, <2>3
  <1>10. Len(cells') >= 2 + Len(new)
    BY <1>1, <1>3
  <1>11. QED BY <1>3, <1>7, <1>8, <1>9, <1>10 DEF RowShows

\* Keys that change no text.
LEMMA TextKept ==
    ASSUME LineInv, ~overrun, UNCHANGED <<buf, typed, edits, overrun, cells>>,
           lastIndex' = lastAt,
           \/ i' = i /\ pos' = pos
           \/ i > 0 /\ i' = i - 1 /\ pos' = Back(pos, 1)
           \/ i < lastAt /\ i' = i + 1 /\ pos' = pos + 1
    PROVE  LineInv'
  <1> USE DEF LineInv
  <1>1. lastAt \in Nat /\ i <= lastAt /\ i \in Nat /\ pos \in Nat
    BY LastAtIs DEF BufferTypes, ScreenTypes
  <1>2. i' \in Nat /\ i' <= lastAt /\ lastIndex' \in Nat /\ pos' \in Nat
    BY <1>1 DEF Back
  <1>3. lastAt' = lastAt
    <2>1. lastAt' = Largest({i', lastIndex'})
      BY DEF lastAt
    <2>2. Largest({i', lastIndex'}) = IF i' >= lastIndex' THEN i' ELSE lastIndex'
      BY <1>2, LargestOfTwo
    <2>3. QED BY <1>1, <1>2, <2>1, <2>2
  <1>4. BufferTypes' /\ ScreenTypes'
    BY <1>2 DEF BufferTypes, ScreenTypes
  <1>5. OverrunNeedsFullLine'
    BY <1>3 DEF OverrunNeedsFullLine
  <1>6. strlen(buf)' = strlen(buf)
    BY DEF strlen
  <1>7. EnterKeepsLine'
    BY <1>3, <1>6 DEF EnterKeepsLine
  <1>8. EndShown'
    <2>1. SUFFICES ASSUME edits = "end" PROVE (Clean(buf) /\ RowShows(cells, Text(buf)) /\ pos = 2 + i)'
      BY DEF EndShown
    <2>2. Clean(buf) /\ RowShows(cells, Text(buf)) /\ pos = 2 + i
      BY <2>1 DEF EndShown
    <2>3. pos' = 2 + i'
      BY <1>1, <2>2 DEF Back
    <2>4. Clean(buf)' /\ RowShows(cells, Text(buf))'
      BY <1>6, <2>2 DEF Clean, RowShows, Text
    <2>5. QED BY <2>3, <2>4
  <1>9. QED BY <1>4, <1>5, <1>7, <1>8

\* Keys that put a whole text into the line.
LEMMA TextReplaced ==
    ASSUME LineInv, ~overrun, overrun' = overrun, NEW s \in Lines, NEW n \in Nat,
           buf' = Written(EmptyBuf, s),
           i' = Len(s), lastIndex' = Len(s), typed' = Len(s),
           Redraw(n, s),
           edits' \in {"end", "inside", "behind"},
           edits' = "end" => AtEnd /\ n = strlen(buf)
    PROVE  LineInv'
  <1>1. s \in Strings /\ Len(s) \in Nat
    BY LenProperties DEF Lines, Strings
  <1>2. /\ Written(EmptyBuf, s) \in Buffers
        /\ strlen(Written(EmptyBuf, s)) = Len(s)
        /\ Text(Written(EmptyBuf, s)) = s
        /\ \A k \in Index : k >= Len(s) => Written(EmptyBuf, s)[k] = NUL
    BY <1>1, WrittenLine, WrittenIs, EmptyBufIs
  <1>3. strlen(buf)' = Len(s) /\ Text(buf)' = s
    <2>1. strlen(buf)' = strlen(buf') /\ Text(buf)' = Text(buf')
      BY DEF strlen, Text
    <2>2. QED BY <1>2, <2>1
  <1>4. Clean(buf)'
    BY <1>2, <1>3 DEF Clean
  <1>5. BufferTypes'
    BY <1>1, <1>2 DEF BufferTypes
  <1>6. ScreenTypes'
    BY <1>1, RedrawIs DEF LineInv
  <1>7. lastAt' = Len(s)
    <2>1. lastAt' = Largest({i', lastIndex'})
      BY DEF lastAt
    <2>2. QED BY <1>1, <2>1, LargestOfTwo
  <1>8. OverrunNeedsFullLine' /\ EnterKeepsLine'
    BY <1>1, <1>3, <1>7 DEF OverrunNeedsFullLine, EnterKeepsLine
  <1>9. EndShown'
    <2>1. SUFFICES ASSUME edits' = "end" PROVE (RowShows(cells, Text(buf)) /\ pos = 2 + i)'
      BY <1>4 DEF EndShown
    <2>2. /\ RowShows(cells, Text(buf)) /\ pos = 2 + strlen(buf) /\ n = strlen(buf)
          /\ ScreenTypes /\ buf \in Buffers
      BY <2>1 DEF LineInv, EndShown, AtEnd, BufferTypes
    <2>3. Text(buf) \in Strings /\ Len(Text(buf)) = strlen(buf) /\ strlen(buf) \in Nat
      BY <2>2, TextIsString
    <2>4. RowShows(cells', s) /\ pos' = 2 + Len(s)
      <3>1. Len(s) = Len(Text(buf)) - n + Len(s)
            /\ \A k \in 1 .. Len(s) : ~(k <= Len(Text(buf)) - n) /\ k - (Len(Text(buf)) - n) = k
        BY <1>1, <2>2, <2>3
      <3>2. n \in 0 .. Len(Text(buf)) /\ pos = 2 + Len(Text(buf))
        BY <2>2, <2>3
      <3>3. QED BY <1>1, <2>2, <2>3, <3>1, <3>2, RedrawRow
    <2>5. RowShows(cells, Text(buf))'
      BY <1>3, <2>4 DEF RowShows
    <2>6. QED BY <2>4, <2>5
  <1>10. QED BY <1>5, <1>6, <1>8, <1>9 DEF LineInv

LEMMA LineNumbers ==
    ASSUME LineInv
    PROVE  /\ buf \in Buffers /\ BUFLEN \in Nat /\ Index = 0 .. BUFLEN - 1
           /\ i \in Nat /\ lastIndex \in Nat /\ typed \in Nat
           /\ lastAt \in Nat /\ i <= lastAt /\ lastIndex <= lastAt /\ lastAt <= typed
           /\ strlen(buf) \in 0 .. BUFLEN
           /\ \A k \in Index : k < strlen(buf) => buf[k] # NUL
           /\ strlen(buf) < BUFLEN => buf[strlen(buf)] = NUL
  <1>1. i \in Nat /\ lastIndex \in Nat
    BY DEF LineInv, BufferTypes
  <1>2. EndsAt(buf, strlen(buf))
    BY StrlenEnds
  <1>3. QED
    BY <1>1, <1>2, LastAtIs, LineAssumption DEF LineInv, BufferTypes, OverrunNeedsFullLine, EndsAt, Index

\* A character that is written is shown.
LEMMA ShownIsRedraw ==
    ASSUME ScreenTypes, NEW s, cells' = Shown(cells, pos, s), pos' = pos + Len(s)
    PROVE  Redraw(0, s)
  <1>1. cells \in Seq(Cells) /\ pos \in Nat
    BY DEF ScreenTypes
  <1>2. Back(pos, 0) = pos
    BY <1>1 DEF Back
  <1>3. /\ Rubbed(cells, pos, 0) \in Seq(Cells)
        /\ Len(Rubbed(cells, pos, 0)) = Len(cells)
        /\ \A k \in 1 .. Len(cells) :
             Rubbed(cells, pos, 0)[k] = IF k > pos - 0 /\ k <= pos THEN Blank ELSE cells[k]
    BY <1>1, RubbedIs
  <1>4. \A k \in 1 .. Len(cells) : ~(k > pos - 0 /\ k <= pos)
    BY <1>1
  <1>5. \A k \in 1 .. Len(cells) : Rubbed(cells, pos, 0)[k] = cells[k]
    BY <1>3, <1>4
  <1>6. Rubbed(cells, pos, 0) = cells
    BY <1>1, <1>3, <1>5, SeqEqual
  <1>7. QED BY <1>2, <1>6 DEF Redraw

LEMMA TypeShown ==
    ASSUME LineInv, NEW c \in Marks, Type(c)
    PROVE  LineInv'
  <1>1. /\ ~overrun /\ overrun' = overrun
        /\ i < BUFLEN - 1 /\ buf' = [buf EXCEPT ![i] = c]
        /\ i' = i + 1 /\ lastIndex' = lastAt + 1 /\ typed' = typed + 1
        /\ cells' = Shown(cells, pos, <<c>>) /\ pos' = pos + 1
        /\ edits' = Edited
    BY DEF Type, Key
  <1>2. /\ buf \in Buffers /\ BUFLEN \in Nat /\ Index = 0 .. BUFLEN - 1
        /\ i \in Nat /\ typed \in Nat
        /\ lastAt \in Nat /\ i <= lastAt /\ lastAt <= typed
        /\ strlen(buf) \in 0 .. BUFLEN
        /\ \A k \in Index : k < strlen(buf) => buf[k] # NUL
        /\ strlen(buf) < BUFLEN => buf[strlen(buf)] = NUL
    BY LineNumbers
  <1>3. /\ i \in Index /\ i + 1 \in Index /\ c \in Chars /\ c # NUL
        /\ buf' \in Buffers
        /\ \A k \in Index : buf'[k] = IF k = i THEN c ELSE buf[k]
    BY <1>1, <1>2, MarksAreChars DEF Buffers
  <1>4. lastAt' = lastAt + 1
    <2>1. lastAt' = Largest({i', lastIndex'})
      BY DEF lastAt
    <2>2. QED BY <1>1, <1>2, <2>1, LargestOfTwo
  <1>5. <<c>> \in Strings /\ Len(<<c>>) = 1
    BY DEF Strings
  <1>6. Redraw(0, <<c>>)
    BY <1>1, <1>5, ShownIsRedraw DEF LineInv
  <1>7. ScreenTypes'
    BY <1>5, <1>6, RedrawIs DEF LineInv
  <1>8. BufferTypes'
    BY <1>1, <1>2, <1>3, WorseTypes DEF BufferTypes, LineInv
  <1>9. OverrunNeedsFullLine'
    BY <1>1, <1>2, <1>4 DEF OverrunNeedsFullLine
  <1>10. strlen(buf)' = strlen(buf') /\ Text(buf)' = Text(buf')
    BY DEF strlen, Text
  <1>11. EnterKeepsLine'
    <2>1. SUFFICES ASSUME Edited # "behind" PROVE strlen(buf') <= lastAt + 1
      BY <1>1, <1>4, <1>10 DEF EnterKeepsLine
    <2>2. edits # "behind" /\ i <= strlen(buf) /\ (i = strlen(buf) => ~LeftOver(i + 1))
      BY <2>1, EditedInside DEF LineInv
    <2>3. strlen(buf) <= lastAt
      BY <1>1, <2>2 DEF LineInv, EnterKeepsLine
    <2>4. CASE i < strlen(buf)
      <3>1. EndsAt(buf', strlen(buf))
        BY <1>2, <1>3, <2>4 DEF EndsAt
      <3>2. QED BY <1>2, <2>3, <3>1, StrlenIs
    <2>5. CASE i = strlen(buf)
      <3>1. buf[i + 1] = NUL
        BY <1>3, <2>2, <2>5 DEF LeftOver
      <3>2. EndsAt(buf', i + 1)
        BY <1>2, <1>3, <2>5, <3>1 DEF EndsAt
      <3>3. QED BY <1>2, <3>2, StrlenIs
    <2>6. QED BY <1>2, <2>2, <2>4, <2>5
  <1>12. EndShown'
    <2>1. SUFFICES ASSUME Edited = "end" PROVE (Clean(buf) /\ RowShows(cells, Text(buf)) /\ pos = 2 + i)'
      BY <1>1 DEF EndShown
    <2>2. AtEnd
      BY <2>1, EditedAtEnd DEF LineInv
    <2>3. Clean(buf) /\ RowShows(cells, Text(buf)) /\ pos = 2 + i /\ i = strlen(buf)
      BY <1>1, <2>2 DEF LineInv, EndShown, AtEnd
    <2>4. EndsAt(buf', i + 1)
      BY <1>2, <1>3, <2>3 DEF EndsAt, Clean
    <2>5. strlen(buf') = i + 1
      BY <2>4, StrlenIs
    <2>6. Clean(buf')
      BY <1>2, <1>3, <2>3, <2>5 DEF Clean
    <2> DEFINE old == Text(buf)
               new == Text(buf')
    <2>7. /\ old \in Strings /\ Len(old) = i
          /\ \A k \in 1 .. i : old[k] = buf[k - 1]
      BY <1>2, <2>3, TextIsString
    <2>8. /\ new \in Strings /\ Len(new) = i + 1
          /\ \A k \in 1 .. i + 1 : new[k] = buf'[k - 1]
      BY <1>3, <2>5, TextIsString
    <2> HIDE DEF old, new
    <2>9. ASSUME NEW k \in 1 .. Len(new)
          PROVE  new[k] = IF k <= Len(old) - 0 THEN old[k] ELSE <<c>>[k - (Len(old) - 0)]
      <3>1. new[k] = buf'[k - 1] /\ k \in 1 .. i + 1 /\ k - 1 \in Index
        BY <1>2, <1>3, <2>8, <2>9
      <3>2. CASE k = i + 1
        BY <1>2, <1>3, <2>7, <3>1, <3>2
      <3>3. CASE k # i + 1
        <4>1. k \in 1 .. i /\ k - 1 # i /\ k <= Len(old) - 0
          BY <1>2, <2>7, <3>1, <3>3
        <4>2. QED BY <1>3, <2>7, <3>1, <4>1
      <3>4. QED BY <3>2, <3>3
    <2>10. RowShows(cells', new) /\ pos' = 2 + Len(new)
      <3>1. /\ 0 \in 0 .. Len(old) /\ Len(new) = Len(old) - 0 + Len(<<c>>)
            /\ RowShows(cells, old) /\ pos = 2 + Len(old) /\ ScreenTypes
        BY <1>2, <1>5, <2>3, <2>7, <2>8 DEF old, LineInv
      <3>2. QED BY <1>5, <1>6, <2>7, <2>8, <2>9, <3>1, RedrawRow
    <2>11. RowShows(cells, Text(buf))'
      BY <1>10, <2>10 DEF RowShows, new
    <2>12. pos' = 2 + i'
      BY <1>1, <2>8, <2>10
    <2>13. Clean(buf)'
      BY <1>10, <2>6 DEF Clean
    <2>14. QED BY <2>11, <2>12, <2>13
  <1>13. QED BY <1>7, <1>8, <1>9, <1>11, <1>12 DEF LineInv

\* A key that runs over the end of the buffer.
LEMMA RunsOver ==
    ASSUME LineInv, ~overrun, overrun', BufferTypes', ScreenTypes',
           typed' >= BUFLEN - 1, lastAt' <= typed'
    PROVE  LineInv'
  BY DEF LineInv, OverrunNeedsFullLine, EnterKeepsLine, EndShown

LEMMA BackspaceShown ==
    ASSUME LineInv, i > 0, Backspace
    PROVE  LineInv'
  <1>1. /\ ~overrun
        /\ i' = i - 1 /\ lastIndex' = lastAt /\ typed' = typed
        /\ Redraw(1, << >>)
        /\ edits' = Edited
    BY DEF Backspace, Key
  <1>2. /\ buf \in Buffers /\ BUFLEN \in Nat /\ Index = 0 .. BUFLEN - 1
        /\ i \in Nat /\ typed \in Nat
        /\ lastAt \in Nat /\ i <= lastAt /\ lastAt <= typed
        /\ strlen(buf) \in 0 .. BUFLEN
        /\ \A k \in Index : k < strlen(buf) => buf[k] # NUL
        /\ strlen(buf) < BUFLEN => buf[strlen(buf)] = NUL
    BY LineNumbers
  <1>3. lastAt' = lastAt
    <2>1. lastAt' = Largest({i', lastIndex'})
      BY DEF lastAt
    <2>2. QED BY <1>1, <1>2, <2>1, LargestOfTwo
  <1>4. ScreenTypes'
    BY <1>1, EmptyLine, RedrawIs DEF LineInv
  <1>5. CASE i \notin Index
    <2>1. overrun' /\ buf' = buf
      BY <1>5 DEF Backspace
    <2>2. BufferTypes'
      BY <1>1, <1>2, <2>1, WorseTypes DEF BufferTypes, LineInv
    <2>3. typed' >= BUFLEN - 1 /\ lastAt' <= typed'
      BY <1>1, <1>2, <1>3, <1>5
    <2>4. QED BY <1>1, <1>4, <2>1, <2>2, <2>3, RunsOver
  <1>6. CASE i \in Index
    <2>1. overrun' = overrun /\ buf' = [buf EXCEPT ![i - 1] = buf[i]]
      BY <1>6 DEF Backspace
    <2>2. /\ i - 1 \in Index /\ buf[i] \in Chars /\ buf' \in Buffers
          /\ \A k \in Index : buf'[k] = IF k = i - 1 THEN buf[i] ELSE buf[k]
      BY <1>2, <1>6, <2>1 DEF Buffers
    <2>3. BufferTypes'
      BY <1>1, <1>2, <2>2, WorseTypes DEF BufferTypes, LineInv
    <2>4. OverrunNeedsFullLine'
      BY <1>1, <1>2, <1>3, <2>1 DEF OverrunNeedsFullLine
    <2>5. strlen(buf)' = strlen(buf') /\ Text(buf)' = Text(buf')
      BY DEF strlen, Text
    <2>6. ASSUME i = strlen(buf) PROVE strlen(buf') = i - 1
      <3>1. buf[i] = NUL
        BY <1>2, <1>6, <2>6
      <3>2. EndsAt(buf', i - 1)
        BY <1>2, <1>6, <2>2, <2>6, <3>1 DEF EndsAt
      <3>3. QED BY <3>2, StrlenIs
    <2>7. EnterKeepsLine'
      <3>1. SUFFICES ASSUME Edited # "behind" PROVE strlen(buf') <= lastAt
        BY <1>1, <1>3, <2>5 DEF EnterKeepsLine
      <3>2. edits # "behind" /\ i <= strlen(buf)
        BY <3>1, EditedInside DEF LineInv
      <3>3. strlen(buf) <= lastAt
        BY <1>1, <3>2 DEF LineInv, EnterKeepsLine
      <3>4. CASE i < strlen(buf)
        <4>1. buf[i] # NUL
          BY <1>2, <1>6, <3>4
        <4>2. EndsAt(buf', strlen(buf))
          BY <1>2, <1>6, <2>2, <3>4, <4>1 DEF EndsAt
        <4>3. QED BY <1>2, <3>3, <4>2, StrlenIs
      <3>5. CASE i = strlen(buf)
        BY <1>2, <2>6, <3>5
      <3>6. QED BY <1>2, <3>2, <3>4, <3>5
    <2>8. EndShown'
      <3>1. SUFFICES ASSUME Edited = "end"
                     PROVE  (Clean(buf) /\ RowShows(cells, Text(buf)) /\ pos = 2 + i)'
        BY <1>1, <2>1 DEF EndShown
      <3>2. AtEnd
        BY <3>1, EditedAtEnd DEF LineInv
      <3>3. Clean(buf) /\ RowShows(cells, Text(buf)) /\ pos = 2 + i /\ i = strlen(buf)
        BY <1>1, <3>2 DEF LineInv, EndShown, AtEnd
      <3>4. strlen(buf') = i - 1
        BY <2>6, <3>3
      <3>5. Clean(buf')
        BY <1>2, <1>6, <2>2, <3>3, <3>4 DEF Clean
      <3> DEFINE old == Text(buf)
                 new == Text(buf')
      <3>6. /\ old \in Strings /\ Len(old) = i
            /\ \A k \in 1 .. i : old[k] = buf[k - 1]
        BY <1>2, <3>3, TextIsString
      <3>7. /\ new \in Strings /\ Len(new) = i - 1
            /\ \A k \in 1 .. i - 1 : new[k] = buf'[k - 1]
        BY <2>2, <3>4, TextIsString
      <3> HIDE DEF old, new
      <3>8. ASSUME NEW k \in 1 .. Len(new)
            PROVE  new[k] = IF k <= Len(old) - 1 THEN old[k] ELSE << >>[k - (Len(old) - 1)]
        <4>1. k \in 1 .. i - 1 /\ k \in 1 .. i /\ k - 1 \in Index /\ k - 1 # i - 1 /\ k <= Len(old) - 1
          BY <1>2, <1>6, <3>6, <3>7, <3>8
        <4>2. QED BY <2>2, <3>6, <3>7, <4>1
      <3>9. RowShows(cells', new) /\ pos' = 2 + Len(new)
        <4>1. /\ 1 \in 0 .. Len(old) /\ Len(new) = Len(old) - 1 + Len(<< >>)
              /\ RowShows(cells, old) /\ pos = 2 + Len(old) /\ ScreenTypes
          BY <1>2, <3>3, <3>6, <3>7, EmptyLine DEF old, LineInv
        <4>2. QED BY <1>1, EmptyLine, <3>6, <3>7, <3>8, <4>1, RedrawRow
      <3>10. RowShows(cells, Text(buf))'
        BY <2>5, <3>9 DEF RowShows, new
      <3>11. pos' = 2 + i'
        BY <1>1, <3>7, <3>9
      <3>12. Clean(buf)'
        BY <2>5, <3>5 DEF Clean
      <3>13. QED BY <3>10, <3>11, <3>12
    <2>9. QED BY <1>4, <2>3, <2>4, <2>7, <2>8 DEF LineInv
  <1>7. QED BY <1>5, <1>6

LEMMA DelShown ==
    ASSUME LineInv, Del
    PROVE  LineInv'
  <1>1. /\ ~overrun /\ i > 0
        /\ i' = i /\ lastIndex' = lastAt - 1 /\ typed' = typed
        /\ cells' = cells /\ pos' = pos
        /\ edits' = Edited
    BY DEF Del, Key, screenVars
  <1>2. /\ buf \in Buffers /\ BUFLEN \in Nat /\ Index = 0 .. BUFLEN - 1
        /\ i \in Nat /\ typed \in Nat
        /\ lastAt \in Nat /\ i <= lastAt /\ lastAt <= typed
        /\ strlen(buf) \in 0 .. BUFLEN
        /\ \A k \in Index : k < strlen(buf) => buf[k] # NUL
        /\ strlen(buf) < BUFLEN => buf[strlen(buf)] = NUL
    BY LineNumbers
  <1>3. lastAt' \in Nat /\ lastAt' <= lastAt /\ i <= lastAt' /\ lastAt - 1 <= lastAt'
    <2>1. lastAt' = Largest({i', lastIndex'})
      BY DEF lastAt
    <2>2. QED BY <1>1, <1>2, <2>1, LargestOfTwo
  <1>4. ScreenTypes'
    BY <1>1 DEF LineInv, ScreenTypes
  <1>5. CASE lastAt >= BUFLEN - 1
    <2>1. overrun' /\ buf' = buf
      BY <1>2, <1>5 DEF Del
    <2>2. BufferTypes'
      BY <1>1, <1>2, <2>1, WorseTypes DEF BufferTypes, LineInv
    <2>3. typed' >= BUFLEN - 1 /\ lastAt' <= typed'
      BY <1>1, <1>2, <1>3, <1>5
    <2>4. QED BY <1>1, <1>4, <2>1, <2>2, <2>3, RunsOver
  <1>6. CASE ~(lastAt >= BUFLEN - 1)
    <2>1. /\ overrun' = overrun
          /\ buf' = [k \in Index |-> IF k \in i .. lastAt THEN buf[k + 1] ELSE buf[k]]
      BY <1>2, <1>6 DEF Del
    <2>2. /\ \A k \in i .. lastAt : k \in Index /\ k + 1 \in Index
          /\ lastAt + 1 \in Index
      BY <1>2, <1>6
    <2>3. \A k \in Index : buf'[k] = IF k \in i .. lastAt THEN buf[k + 1] ELSE buf[k]
      BY <2>1
    <2>4. buf' \in Buffers
      BY <1>2, <2>1, <2>2 DEF Buffers
    <2>5. BufferTypes'
      BY <1>1, <1>2, <2>4, WorseTypes DEF BufferTypes, LineInv
    <2>6. OverrunNeedsFullLine'
      BY <1>1, <1>2, <1>3, <2>1 DEF OverrunNeedsFullLine
    <2>7. strlen(buf)' = strlen(buf') /\ Text(buf)' = Text(buf')
      BY DEF strlen, Text
    <2>8. ASSUME i = strlen(buf), ~LeftOver(i + 1) PROVE EndsAt(buf', i)
      <3>1. buf[i + 1] = NUL /\ i \in i .. lastAt
        BY <1>2, <2>2, <2>8 DEF LeftOver
      <3>2. buf'[i] = NUL /\ i < BUFLEN
        BY <1>2, <2>2, <2>3, <3>1
      <3>3. ASSUME NEW k \in Index, k < i PROVE buf'[k] # NUL
        <4>1. k \notin i .. lastAt
          BY <1>2, <3>3
        <4>2. QED BY <1>2, <2>3, <2>8, <3>3, <4>1
      <3>4. QED BY <1>2, <3>2, <3>3 DEF EndsAt
    <2>9. EnterKeepsLine'
      <3>1. SUFFICES ASSUME Edited # "behind" PROVE strlen(buf') <= lastAt'
        BY <1>1, <2>7 DEF EnterKeepsLine
      <3>2. edits # "behind" /\ i <= strlen(buf) /\ (i = strlen(buf) => ~LeftOver(i + 1))
        BY <3>1, EditedInside DEF LineInv
      <3>3. strlen(buf) <= lastAt
        BY <1>1, <3>2 DEF LineInv, EnterKeepsLine
      <3>4. CASE i < strlen(buf)
        <4>1. strlen(buf) - 1 \in i .. lastAt /\ strlen(buf) < BUFLEN /\ strlen(buf) - 1 + 1 = strlen(buf)
          BY <1>2, <1>6, <3>3, <3>4
        <4>2. buf'[strlen(buf) - 1] = NUL
          BY <1>2, <2>2, <2>3, <4>1
        <4>3. ASSUME NEW k \in Index, k < strlen(buf) - 1 PROVE buf'[k] # NUL
          <5>1. CASE k \in i .. lastAt
            <6>1. k + 1 \in Index /\ k + 1 < strlen(buf)
              BY <1>2, <2>2, <4>3, <5>1
            <6>2. buf[k + 1] # NUL
              BY <1>2, <6>1
            <6>3. QED BY <2>3, <5>1, <6>2
          <5>2. CASE k \notin i .. lastAt
            BY <1>2, <2>3, <4>3, <5>2
          <5>3. QED BY <5>1, <5>2
        <4>4. EndsAt(buf', strlen(buf) - 1)
          BY <1>2, <3>4, <4>2, <4>3 DEF EndsAt
        <4>5. strlen(buf') = strlen(buf) - 1
          BY <4>4, StrlenIs
        <4>6. QED BY <1>2, <1>3, <3>3, <4>5
      <3>5. CASE i = strlen(buf)
        <4>1. strlen(buf') = i
          BY <2>8, <3>2, <3>5, StrlenIs
        <4>2. QED BY <1>2, <1>3, <4>1
      <3>6. QED BY <1>2, <3>2, <3>4, <3>5
    <2>10. EndShown'
      <3>1. SUFFICES ASSUME Edited = "end"
                     PROVE  (Clean(buf) /\ RowShows(cells, Text(buf)) /\ pos = 2 + i)'
        BY <1>1, <2>1 DEF EndShown
      <3>2. AtEnd
        BY <3>1, EditedAtEnd DEF LineInv
      <3>3. Clean(buf) /\ RowShows(cells, Text(buf)) /\ pos = 2 + i /\ i = strlen(buf)
        BY <1>1, <3>2 DEF LineInv, EndShown, AtEnd
      <3>4. ASSUME NEW k \in Index PROVE buf'[k] = buf[k]
        <4>1. CASE k \in i .. lastAt
          <5>1. k >= strlen(buf) /\ k + 1 \in Index /\ k + 1 >= strlen(buf)
            BY <1>2, <2>2, <3>3, <4>1
          <5>2. buf[k] = NUL /\ buf[k + 1] = NUL
            BY <3>3, <5>1 DEF Clean
          <5>3. QED BY <2>3, <4>1, <5>2
        <4>2. CASE k \notin i .. lastAt
          BY <2>3, <4>2
        <4>3. QED BY <4>1, <4>2
      <3>5. buf' = buf
        BY <1>2, <2>4, <3>4 DEF Buffers
      <3>6. QED BY <1>1, <2>7, <3>3, <3>5 DEF Clean, RowShows
    <2>11. QED BY <1>4, <2>5, <2>6, <2>9, <2>10 DEF LineInv
  <1>7. QED BY <1>5, <1>6

\* The lengths of strings have a bound.
Bounded(s, m) == \E bound \in Nat : \A n \in 1 .. m : Len(s[n]) <= bound

LEMMA LengthsBounded ==
    ASSUME NEW s \in Seq(Strings)
    PROVE  \E bound \in Nat : \A n \in DOMAIN s : Len(s[n]) <= bound
  <1> DEFINE Failing == {m \in 0 .. Len(s) : ~Bounded(s, m)}
  <1>1. /\ Len(s) \in Nat /\ DOMAIN s = 1 .. Len(s)
        /\ \A n \in 1 .. Len(s) : Len(s[n]) \in Nat
    BY LenProperties, ElementOfSeq DEF Strings
  <1>2. SUFFICES ASSUME ~Bounded(s, Len(s)) PROVE FALSE
    BY <1>1 DEF Bounded
  <1>3. Failing \subseteq Nat /\ Failing # {}
    BY <1>1, <1>2
  <1>4. PICK m \in Failing : \A k \in Failing : m <= k
    BY <1>3, LeastNumber
  <1>5. CASE m = 0
    <2>1. Bounded(s, 0)
      <3>1. 0 \in Nat /\ \A n \in 1 .. 0 : Len(s[n]) <= 0
        OBVIOUS
      <3>2. QED BY <3>1 DEF Bounded
    <2>2. QED BY <1>4, <1>5, <2>1
  <1>6. CASE m # 0
    <2>1. m - 1 \in 0 .. Len(s) /\ ~(m <= m - 1) /\ m \in 1 .. Len(s)
      BY <1>1, <1>4, <1>6
    <2>2. Bounded(s, m - 1)
      BY <1>4, <2>1
    <2>3. PICK bound \in Nat : \A n \in 1 .. m - 1 : Len(s[n]) <= bound
      BY <2>2 DEF Bounded
    <2> DEFINE more == IF Len(s[m]) <= bound THEN bound ELSE Len(s[m])
    <2>4. Len(s[m]) \in Nat
      BY <1>1, <2>1
    <2>5. more \in Nat /\ bound <= more /\ Len(s[m]) <= more
      <3>1. CASE Len(s[m]) <= bound
        BY <3>1
      <3>2. CASE ~(Len(s[m]) <= bound)
        BY <2>4, <3>2
      <3>3. QED BY <3>1, <3>2
    <2> HIDE DEF more
    <2>6. ASSUME NEW n \in 1 .. m PROVE Len(s[n]) <= more
      <3>1. CASE n = m
        BY <2>5, <3>1
      <3>2. CASE n # m
        <4>1. n \in 1 .. m - 1 /\ n \in 1 .. Len(s)
          BY <1>1, <2>1, <3>2
        <4>2. Len(s[n]) <= bound /\ Len(s[n]) \in Nat
          BY <1>1, <2>3, <4>1
        <4>3. QED BY <2>5, <4>2
      <3>3. QED BY <3>1, <3>2
    <2>7. Bounded(s, m)
      BY <2>5, <2>6 DEF Bounded
    <2>8. QED BY <1>4, <2>7
  <1>7. QED BY <1>5, <1>6

LEMMA CompletedText ==
    ASSUME buf \in Buffers, Completable
    PROVE  Completed(Text(buf))
  <1>1. /\ Text(buf) \in Strings /\ Len(Text(buf)) = strlen(buf)
        /\ strlen(buf) \in Nat
        /\ \A k \in 1 .. strlen(buf) : Text(buf)[k] = buf[k - 1]
    BY TextIsString
  <1>2. strlen(buf) > 0 /\ buf[strlen(buf) - 1] # Blank
    BY DEF Completable
  <1>3. QED BY <1>1, <1>2 DEF Completed

LEMMA CutIs ==
    ASSUME buf \in Buffers, Completed(Text(buf))
    PROVE  /\ Cut \in Buffers
           /\ strlen(Cut) <= strlen(buf)
           /\ \A k \in Index :
                \/ Cut[k] = buf[k]
                \/ ~OneWord /\ k = LastStart(Text(buf)) - 1
  <1>1. /\ BUFLEN \in Nat /\ Index = 0 .. BUFLEN - 1
        /\ Len(Text(buf)) = strlen(buf) /\ strlen(buf) \in 0 .. BUFLEN
    BY TextIsString, LineAssumption DEF Index
  <1>2. CASE OneWord
    <2>1. Cut = buf
      BY <1>2 DEF Cut
    <2>2. QED BY <1>1, <2>1
  <1>3. CASE ~OneWord
    <2> DEFINE start == LastStart(Text(buf)) - 1
    <2>1. start \in 0 .. strlen(buf) - 1 /\ start \in Index
      BY <1>1, WordsOf
    <2>2. Cut = [buf EXCEPT ![start] = NUL]
      BY <1>3 DEF Cut
    <2> HIDE DEF start
    <2>3. Cut \in Buffers /\ \A k \in Index : Cut[k] = IF k = start THEN NUL ELSE buf[k]
      BY <2>1, <2>2, MarksAreChars DEF Buffers
    <2>4. EndsAt(buf, strlen(buf))
      BY StrlenEnds
    <2>5. EndsAt(Cut, start)
      BY <1>1, <2>1, <2>3, <2>4 DEF EndsAt
    <2>6. strlen(Cut) = start
      BY <2>5, StrlenIs
    <2>7. QED BY <1>1, <1>3, <2>1, <2>3, <2>6 DEF start
  <1>4. QED BY <1>2, <1>3

\* A completion written over the line ends it, where nothing is left behind it.
LEMMA FoundWritten ==
    ASSUME buf \in Buffers, Completed(Text(buf)), Clean(buf),
           NEW n \in DOMAIN Completions, Len(Completions[n]) < BUFLEN
    PROVE  /\ Clean(Written(Cut, Completions[n]))
           /\ \/ Text(Written(Cut, Completions[n])) = Completions[n]
              \/ BehindBlanks
  <1> DEFINE found == Completions[n]
             b == Written(Cut, found)
             m == IF Len(found) >= strlen(buf) THEN Len(found) ELSE strlen(buf)
  <1>1. found \in Strings
    <2>1. n \in 1 .. Len(Completions)
      BY CompletionsAre, LenProperties
    <2>2. QED BY <2>1, CompletionsAre, ElementOfSeq
  <1>2. Len(found) >= strlen(buf) \/ BehindBlanks
    BY CompletionsAre DEF Extends
  <1>3. /\ Cut \in Buffers
        /\ \A k \in Index :
             \/ Cut[k] = buf[k]
             \/ ~OneWord /\ k = LastStart(Text(buf)) - 1
    BY CutIs
  <1>4. /\ BUFLEN \in Nat /\ Index = 0 .. BUFLEN - 1
        /\ strlen(buf) \in 0 .. BUFLEN
        /\ LastStart(Text(buf)) \in 1 .. strlen(buf)
    BY TextIsString, WordsOf, LineAssumption DEF Index
  <1> HIDE DEF found
  <1>5. /\ b \in Buffers /\ Len(found) \in Nat
        /\ \A k \in Index : k < Len(found) => b[k] = found[k + 1] /\ found[k + 1] \in Marks
        /\ \A k \in Index : k >= Len(found) => b[k] = Cut[k]
    BY <1>1, <1>3, WrittenIs
  <1> HIDE DEF b
  <1>6. ASSUME NEW k \in Index, k >= Len(found) PROVE b[k] = buf[k]
    <2>1. CASE Cut[k] = buf[k]
      BY <1>5, <1>6, <2>1
    <2>2. CASE ~OneWord /\ k = LastStart(Text(buf)) - 1
      BY <1>2, <1>4, <1>5, <1>6, <2>2 DEF BehindBlanks
    <2>3. QED BY <1>3, <2>1, <2>2
  <1>7. /\ \A k \in Index : k < strlen(buf) => buf[k] # NUL
        /\ \A k \in Index : k >= strlen(buf) => buf[k] = NUL
    BY StrlenEnds DEF EndsAt, Clean
  <1>8. m \in 0 .. BUFLEN /\ m >= Len(found) /\ m >= strlen(buf)
    BY <1>4, <1>5 DEF found
  <1>9. EndsAt(b, m)
    <2>1. ASSUME NEW k \in Index, k < m PROVE b[k] # NUL
      <3>1. CASE k < Len(found)
        BY <1>5, <3>1, MarksAreChars
      <3>2. CASE ~(k < Len(found))
        <4>1. k >= Len(found) /\ k < strlen(buf)
          BY <1>4, <1>5, <2>1, <3>2
        <4>2. QED BY <1>6, <1>7, <4>1
      <3>3. QED BY <3>1, <3>2
    <2>2. ASSUME m < BUFLEN PROVE b[m] = NUL
      <3>1. m \in Index
        BY <1>4, <1>8, <2>2
      <3>2. QED BY <1>6, <1>7, <1>8, <3>1
    <2>3. QED BY <1>8, <2>1, <2>2 DEF EndsAt
  <1>10. strlen(b) = m
    BY <1>9, StrlenIs
  <1>11. Clean(b)
    <2>1. SUFFICES ASSUME NEW k \in Index, k >= m PROVE b[k] = NUL
      BY <1>10 DEF Clean
    <2>2. k >= Len(found) /\ k >= strlen(buf)
      BY <1>4, <1>5, <1>8, <2>1
    <2>3. QED BY <1>6, <1>7, <2>2
  <1>12. ASSUME Len(found) >= strlen(buf) PROVE Text(b) = found
    <2>1. /\ Text(b) \in Strings /\ Len(Text(b)) = Len(found)
          /\ \A k \in 1 .. Len(found) : Text(b)[k] = b[k - 1]
      BY <1>5, <1>10, <1>12, TextIsString
    <2>2. ASSUME NEW k \in 1 .. Len(found) PROVE Text(b)[k] = found[k]
      <3>1. k - 1 \in Index /\ k - 1 < Len(found) /\ k - 1 + 1 = k
        BY <1>4, <1>5, <1>8, <2>2 DEF found
      <3>2. b[k - 1] = found[k - 1 + 1]
        BY <1>5, <3>1
      <3>3. QED BY <2>1, <3>1, <3>2
    <2>3. QED BY <1>1, <2>1, <2>2, SeqEqual DEF Strings
  <1>13. QED BY <1>2, <1>11, <1>12 DEF found, b

LEMMA TabFindsNothing ==
    ASSUME LineInv, TabComplete, Completions = << >>
    PROVE  LineInv'
  <1>1. /\ ~overrun /\ overrun' = overrun
        /\ buf' = Cut /\ lastIndex' = lastAt
        /\ edits' = IF buf' = buf THEN edits ELSE Worse("inside")
        /\ i' = i /\ typed' = typed /\ cells' = cells /\ pos' = pos
    BY DEF TabComplete, Key, screenVars
  <1>2. CASE buf' = buf
    <2>1. edits' = edits
      BY <1>1, <1>2
    <2>2. QED BY <1>1, <1>2, <2>1, TextKept
  <1>3. CASE buf' # buf
    <2>1. Completed(Text(buf)) /\ buf \in Buffers
      BY CompletedText DEF LineInv, BufferTypes, TabComplete
    <2>2. Cut \in Buffers /\ strlen(Cut) <= strlen(buf)
      BY <2>1, CutIs
    <2>3. edits' = Worse("inside") /\ edits' # "end"
      BY <1>1, <1>3 DEF Worse
    <2>4. /\ lastAt \in Nat /\ i <= lastAt /\ i \in Nat /\ typed \in Nat
          /\ strlen(buf) \in Nat
      BY LineNumbers
    <2>5. lastAt' = lastAt
      <3>1. lastAt' = Largest({i', lastIndex'})
        BY DEF lastAt
      <3>2. QED BY <1>1, <2>4, <3>1, LargestOfTwo
    <2>6. BufferTypes' /\ ScreenTypes'
      BY <1>1, <2>2, <2>3, <2>4, WorseTypes DEF BufferTypes, ScreenTypes, LineInv
    <2>7. OverrunNeedsFullLine'
      BY <1>1, <2>5 DEF OverrunNeedsFullLine, LineInv
    <2>8. EnterKeepsLine'
      <3>1. SUFFICES ASSUME edits' # "behind" PROVE strlen(buf)' <= lastAt'
        BY DEF EnterKeepsLine
      <3>2. edits # "behind"
        BY <2>3, <3>1 DEF Worse
      <3>3. strlen(buf) <= lastAt
        BY <1>1, <3>2 DEF LineInv, EnterKeepsLine
      <3>4. strlen(buf)' = strlen(Cut) /\ strlen(Cut) \in Nat
        <4>1. strlen(buf)' = strlen(buf')
          BY DEF strlen
        <4>2. strlen(Cut) \in Nat
          BY <2>2, TextIsString
        <4>3. QED BY <1>1, <4>1, <4>2
      <3>5. QED BY <2>2, <2>4, <2>5, <3>3, <3>4
    <2>9. EndShown'
      BY <2>3 DEF EndShown
    <2>10. QED BY <2>6, <2>7, <2>8, <2>9 DEF LineInv
  <1>4. QED BY <1>2, <1>3

LEMMA TabFinds ==
    ASSUME LineInv, TabComplete, Completions # << >>
    PROVE  LineInv'
  <1> DEFINE found == Completions[1]
             lengths == {Len(Completions[n]) : n \in DOMAIN Completions}
  <1>1. /\ ~overrun
        /\ buf' = Written(Cut, found)
        /\ overrun' = \E n \in DOMAIN Completions : Len(Completions[n]) >= BUFLEN
        /\ i' = strlen(buf') /\ lastIndex' = strlen(buf')
        /\ typed' = Largest({strlen(buf')} \cup lengths)
        /\ Redraw(strlen(buf), Text(buf'))
        /\ edits' = Edited
    BY DEF TabComplete, Key
  <1>2. Completed(Text(buf)) /\ buf \in Buffers
    BY CompletedText DEF LineInv, BufferTypes, TabComplete
  <1>3. /\ Completions \in Seq(Strings) /\ 1 \in DOMAIN Completions
        /\ \A n \in DOMAIN Completions : Completions[n] \in Strings /\ Len(Completions[n]) \in Nat
    <2>1. Completions \in Seq(Strings)
      BY <1>2, CompletionsAre
    <2>2. Len(Completions) \in Nat \ {0} /\ DOMAIN Completions = 1 .. Len(Completions)
      BY <2>1, EmptySeq, LenProperties
    <2>3. \A n \in 1 .. Len(Completions) : Completions[n] \in Strings
      BY <2>1, ElementOfSeq
    <2>4. QED BY <2>1, <2>2, <2>3, LenProperties DEF Strings
  <1> HIDE DEF found
  <1>4. Cut \in Buffers /\ found \in Strings
    BY <1>2, <1>3, CutIs DEF found
  <1>5. buf' \in Buffers
    BY <1>1, <1>4, WrittenIs
  <1>6. /\ Text(buf') \in Strings /\ Len(Text(buf')) = strlen(buf')
        /\ strlen(buf') \in 0 .. BUFLEN /\ BUFLEN \in Nat
        /\ strlen(buf) \in Nat
    BY <1>2, <1>5, TextIsString, LineAssumption
  <1>7. /\ typed' \in Nat /\ strlen(buf') <= typed'
        /\ \A k \in lengths : k <= typed'
    <2> DEFINE all == {strlen(buf')} \cup lengths
    <2>1. PICK bound \in Nat : \A n \in DOMAIN Completions : Len(Completions[n]) <= bound
      BY <1>3, LengthsBounded
    <2>2. all \subseteq Nat /\ all # {}
      BY <1>3, <1>6
    <2> DEFINE limit == bound + BUFLEN
    <2>3. limit \in Nat /\ bound <= limit /\ BUFLEN <= limit
      BY <1>6
    <2> HIDE DEF limit
    <2>4. \A k \in all : k <= limit
      <3>1. strlen(buf') <= limit
        BY <1>6, <2>3
      <3>2. ASSUME NEW n \in DOMAIN Completions PROVE Len(Completions[n]) <= limit
        BY <1>3, <2>1, <2>3
      <3>3. QED BY <3>1, <3>2
    <2> HIDE DEF all
    <2>5. Largest(all) \in all /\ \A k \in all : k <= Largest(all)
      BY <2>2, <2>3, <2>4, LargestNumber
    <2>6. QED BY <1>1, <2>2, <2>5 DEF all
  <1>8. lastAt' = strlen(buf')
    <2>1. lastAt' = Largest({i', lastIndex'})
      BY DEF lastAt
    <2>2. QED BY <1>1, <1>6, <2>1, LargestOfTwo
  <1>9. ScreenTypes'
    BY <1>1, <1>6, RedrawIs DEF LineInv
  <1>10. BufferTypes'
    BY <1>1, <1>5, <1>6, <1>7, WorseTypes DEF BufferTypes, LineInv
  <1>11. CASE overrun'
    <2>1. PICK n \in DOMAIN Completions : Len(Completions[n]) >= BUFLEN
      BY <1>1, <1>11
    <2>2. Len(Completions[n]) <= typed' /\ Len(Completions[n]) \in Nat
      BY <1>3, <1>7
    <2>3. typed' >= BUFLEN - 1 /\ lastAt' <= typed'
      BY <1>6, <1>7, <1>8, <2>1, <2>2
    <2>4. QED BY <1>1, <1>9, <1>10, <1>11, <2>3, RunsOver
  <1>12. CASE ~overrun'
    <2>1. Len(found) < BUFLEN
      BY <1>1, <1>3, <1>6, <1>12 DEF found
    <2>2. strlen(buf)' = strlen(buf') /\ Text(buf)' = Text(buf')
      BY DEF strlen, Text
    <2>3. OverrunNeedsFullLine' /\ EnterKeepsLine'
      BY <1>6, <1>7, <1>8, <1>12, <2>2 DEF OverrunNeedsFullLine, EnterKeepsLine
    <2>4. EndShown'
      <3>1. SUFFICES ASSUME Edited = "end"
                     PROVE  (Clean(buf) /\ RowShows(cells, Text(buf)) /\ pos = 2 + i)'
        BY <1>1 DEF EndShown
      <3>2. AtEnd
        BY <3>1, EditedAtEnd DEF LineInv
      <3>3. Clean(buf) /\ RowShows(cells, Text(buf)) /\ pos = 2 + i /\ i = strlen(buf)
        BY <1>1, <3>2 DEF LineInv, EndShown, AtEnd
      <3>4. Clean(buf')
        BY <1>1, <1>2, <1>3, <2>1, <3>3, FoundWritten DEF found
      <3> DEFINE old == Text(buf)
                 new == Text(buf')
                 n == strlen(buf)
      <3>5. old \in Strings /\ Len(old) = n /\ n \in 0 .. Len(old)
        BY <1>2, <1>6, TextIsString
      <3>6. new \in Strings /\ Len(new) = strlen(buf')
        BY <1>6
      <3>7. Redraw(n, new) /\ RowShows(cells, old) /\ pos = 2 + Len(old) /\ ScreenTypes
        BY <1>1, <3>3, <3>5 DEF LineInv
      <3> HIDE DEF old, new, n
      <3>8. /\ Len(new) = Len(old) - n + Len(new)
            /\ \A k \in 1 .. Len(new) :
                 new[k] = IF k <= Len(old) - n THEN old[k] ELSE new[k - (Len(old) - n)]
        <4>1. Len(old) - n = 0 /\ Len(new) \in Nat
          BY <1>6, <3>5, <3>6 DEF n
        <4>2. \A k \in 1 .. Len(new) : ~(k <= 0) /\ k - 0 = k
          BY <4>1
        <4>3. QED BY <4>1, <4>2
      <3>9. RowShows(cells', new) /\ pos' = 2 + Len(new)
        BY <3>5, <3>6, <3>7, <3>8, RedrawRow
      <3>10. RowShows(cells, Text(buf))'
        BY <2>2, <3>9 DEF RowShows, new
      <3>11. pos' = 2 + i'
        BY <1>1, <3>6, <3>9
      <3>12. Clean(buf)'
        BY <2>2, <3>4 DEF Clean
      <3>13. QED BY <3>10, <3>11, <3>12
    <2>5. QED BY <1>9, <1>10, <2>3, <2>4 DEF LineInv
  <1>13. QED BY <1>11, <1>12

\* The prompt, with nothing typed yet.
LEMMA EmptyRow == RowShows(Prompt, << >>) /\ Prompt \in Seq(Cells) /\ Len(Prompt) = 2
  BY DEF RowShows, Prompt, Cells

FreshLine ==
    /\ buf = EmptyBuf /\ i = 0 /\ lastIndex = 0 /\ typed = 0 /\ edits = "end"
    /\ cells = Prompt /\ pos = Len(Prompt) /\ ~overrun

LEMMA FreshLineInv == FreshLine => LineInv
  <1> SUFFICES ASSUME FreshLine PROVE LineInv
    OBVIOUS
  <1> USE DEF FreshLine
  <1>1. EmptyBuf \in Buffers /\ strlen(EmptyBuf) = 0 /\ Text(EmptyBuf) = << >>
    BY EmptyBufIs
  <1>2. lastAt = 0
    BY LastAtIs
  <1>3. BufferTypes /\ ScreenTypes
    BY <1>1, EmptyRow DEF BufferTypes, ScreenTypes
  <1>4. OverrunNeedsFullLine /\ EnterKeepsLine
    BY <1>1, <1>2 DEF OverrunNeedsFullLine, EnterKeepsLine
  <1>5. EndShown
    BY <1>1, EmptyRow DEF EndShown, Clean, EmptyBuf
  <1>6. QED BY <1>3, <1>4, <1>5 DEF LineInv

LEMMA EnterShown ==
    ASSUME LineInv, Enter
    PROVE  LineInv'
  <1>1. CASE lastAt \in Index
    <2>1. /\ buf' = EmptyBuf /\ i' = 0 /\ lastIndex' = 0 /\ typed' = 0 /\ edits' = "end"
          /\ cells' = Prompt /\ pos' = Len(Prompt) /\ overrun' = overrun /\ ~overrun
      BY <1>1 DEF Enter, NextLine
    <2>2. FreshLine'
      BY <2>1 DEF FreshLine, EmptyBuf, Index, Prompt
    <2>3. (FreshLine => LineInv)'
      BY FreshLineInv, PTL
    <2>4. QED BY <2>2, <2>3
  <1>2. CASE lastAt \notin Index
    <2>1. /\ overrun' /\ ~overrun
          /\ UNCHANGED <<buf, i, lastIndex, typed, edits, cells, pos>>
      BY <1>2 DEF Enter, screenVars
    <2>2. BufferTypes' /\ ScreenTypes'
      BY <2>1 DEF BufferTypes, ScreenTypes, LineInv
    <2>3. typed' >= BUFLEN - 1 /\ lastAt' <= typed'
      <3>1. lastAt' = lastAt
        BY <2>1 DEF lastAt
      <3>2. /\ BUFLEN \in Nat /\ Index = 0 .. BUFLEN - 1
            /\ lastAt \in Nat /\ lastAt <= typed /\ typed \in Nat
        BY LineNumbers
      <3>3. QED BY <1>2, <2>1, <3>1, <3>2
    <2>4. QED BY <2>1, <2>2, <2>3, RunsOver
  <1>3. QED BY <1>1, <1>2

\* The arrow keys that show a line of the history.
LEMMA RecallShown ==
    ASSUME LineInv, HistoryTypes, Up \/ Down
    PROVE  LineInv'
  <1>1. ~overrun /\ overrun' = overrun
    BY DEF Up, Down, Key
  <1>2. Len(history) \in Nat /\ HISTORY_MAX \in Nat /\ commandidx \in Nat
    BY LenProperties, LineAssumption DEF HistoryTypes
  <1>3. commandidx' \in Nat
    BY <1>2 DEF Up, Down, last_command_idx
  <1>4. ASSUME NEW s \in Recallable(commandidx'), clearandwritecommand(s)
        PROVE  LineInv'
    <2>1. s \in Lines
      BY <1>3, RecallableLines
    <2>2. /\ buf' = Written(EmptyBuf, s)
          /\ i' = Len(s) /\ lastIndex' = Len(s) /\ typed' = Len(s)
          /\ Redraw(i, s) /\ edits' = Edited
      BY <1>4 DEF clearandwritecommand
    <2>3. i \in Nat /\ edits' \in {"end", "inside", "behind"}
      BY <2>2, WorseTypes DEF LineInv, BufferTypes
    <2>4. edits' = "end" => AtEnd /\ i = strlen(buf)
      BY <2>2, EditedAtEnd DEF LineInv, AtEnd
    <2>5. QED BY <1>1, <2>1, <2>2, <2>3, <2>4, TextReplaced
  <1>5. ASSUME NoText, UNCHANGED screenVars PROVE LineInv'
    BY <1>1, <1>5, TextKept DEF NoText, screenVars
  <1>6. CASE Up
    BY <1>4, <1>6 DEF Up
  <1>7. CASE Down
    BY <1>4, <1>5, <1>7 DEF Down
  <1>8. QED BY <1>6, <1>7

LEMMA TabAgainShown ==
    ASSUME LineInv, PrefixTypes, TabAgain
    PROVE  LineInv' /\ prefixIdx' \in Nat
  <1>1. ~overrun /\ overrun' = overrun
    BY DEF TabAgain, Key
  <1>2. prefixIdx \in Nat /\ Len(prefixes) \in Nat
    BY LenProperties DEF PrefixTypes
  <1>3. PICK shown \in Nat :
          IF shown > 0
          THEN /\ prefixIdx' = (prefixIdx + 1) % shown
               /\ RoundAutoComplete(PrefixAt(prefixIdx), PrefixAt(prefixIdx'))
          ELSE NoText /\ UNCHANGED <<prefixIdx, screenVars>>
    BY <1>2 DEF TabAgain
  <1>4. CASE shown > 0
    <2> DEFINE old == PrefixAt(prefixIdx)
               s == PrefixAt(prefixIdx')
    <2>1. prefixIdx' \in Nat
      BY <1>2, <1>3, <1>4
    <2>2. old \in Lines /\ s \in Lines
      BY <1>1, <1>2, <2>1, PrefixLines
    <2>3. RoundAutoComplete(old, s)
      BY <1>3, <1>4
    <2> HIDE DEF old, s
    <2>4. /\ buf' = Written(EmptyBuf, s)
          /\ i' = Len(s) /\ lastIndex' = Len(s) /\ typed' = Len(s)
          /\ Redraw(Len(old), s)
          /\ edits' = IF Len(old) = strlen(buf) THEN Edited ELSE Worse("inside")
      BY <2>3 DEF RoundAutoComplete
    <2>5. edits' \in {"end", "inside", "behind"}
      BY <2>4, WorseTypes DEF LineInv
    <2>6. ASSUME edits' = "end" PROVE AtEnd /\ Len(old) = strlen(buf)
      <3>1. Worse("inside") # "end"
        BY DEF Worse
      <3>2. Len(old) = strlen(buf) /\ Edited = "end"
        BY <2>4, <2>6, <3>1
      <3>3. QED BY <3>2, EditedAtEnd DEF LineInv
    <2>7. Len(old) \in Nat
      BY <2>2, LenProperties DEF Lines, Strings
    <2>8. LineInv'
      BY <1>1, <2>2, <2>4, <2>5, <2>6, <2>7, TextReplaced
    <2>9. QED BY <2>1, <2>8
  <1>5. CASE ~(shown > 0)
    <2>1. NoText /\ UNCHANGED screenVars /\ prefixIdx' = prefixIdx
      BY <1>3, <1>5
    <2>2. QED BY <1>1, <1>2, <2>1, TextKept DEF NoText, screenVars
  <1>6. QED BY <1>4, <1>5

LEMMA LineStep ==
    ASSUME LineInv, HistoryTypes, PrefixTypes, [Next]_vars
    PROVE  LineInv'
  <1>1. CASE UNCHANGED vars
    BY <1>1 DEF vars, editVars, screenVars, listVars, LineInv, BufferTypes, ScreenTypes,
       OverrunNeedsFullLine, EnterKeepsLine, EndShown, lastAt, strlen, Clean, RowShows, Text
  <1>2. ASSUME NEW c \in Letters \cup {Blank, DelChar}, Type(c) PROVE LineInv'
    BY <1>2, TypeShown DEF Marks
  <1>3. ASSUME NEW c \in Letters \cup {Blank, DelChar}, TypeFull(c) PROVE LineInv'
    BY <1>3, TextKept DEF TypeFull, Key, NoText, screenVars
  <1>4. CASE Backspace
    <2>1. CASE i > 0
      BY <1>4, <2>1, BackspaceShown
    <2>2. CASE ~(i > 0)
      BY <1>4, <2>2, TextKept DEF Backspace, Key, NoText, screenVars
    <2>3. QED BY <2>1, <2>2
  <1>5. CASE Del
    BY <1>5, DelShown
  <1>6. CASE Left
    BY <1>6, TextKept DEF Left, Key
  <1>7. CASE Right
    BY <1>7, TextKept DEF Right, Key
  <1>8. CASE Up \/ Down
    BY <1>8, RecallShown
  <1>9. CASE TabAgain
    BY <1>9, TabAgainShown
  <1>10. CASE TabIgnored
    BY <1>10, TextKept DEF TabIgnored, Key, NoText, screenVars
  <1>11. CASE TabComplete
    BY <1>11, TabFindsNothing, TabFinds
  <1>12. CASE Enter
    BY <1>12, EnterShown
  <1>13. QED
    BY <1>1, <1>2, <1>3, <1>4, <1>5, <1>6, <1>7, <1>8, <1>9, <1>10, <1>11, <1>12 DEF Next

LEMMA PrefixStep ==
    ASSUME LineInv, PrefixTypes, [Next]_vars
    PROVE  PrefixTypes'
  <1>1. ASSUME prefixes' \in {prefixes, << >>}, prefixIdx' \in {prefixIdx, 0},
               ~overrun' => ~overrun
        PROVE  PrefixTypes'
    <2>1. prefixes' \in Seq(Strings) /\ prefixIdx' \in Nat
      <3>1. << >> \in Seq(Strings)
        BY EmptySeq
      <3>2. prefixes \in Seq(Strings) /\ prefixIdx \in Nat
        BY DEF PrefixTypes
      <3>3. prefixes' \in Seq(Strings)
        BY <1>1, <3>1, <3>2
      <3>4. prefixIdx' \in Nat
        BY <1>1, <3>2
      <3>5. QED BY <3>3, <3>4
    <2>2. ASSUME ~overrun', NEW n \in DOMAIN prefixes' PROVE Len(prefixes'[n]) < BUFLEN
      <3>1. ~overrun
        BY <1>1, <2>2
      <3>2. CASE prefixes' = prefixes
        BY <2>2, <3>1, <3>2 DEF PrefixTypes
      <3>3. CASE prefixes' = << >>
        BY <2>2, <3>3
      <3>4. QED BY <1>1, <3>2, <3>3
    <2>3. QED BY <2>1, <2>2 DEF PrefixTypes
  <1>2. CASE TabAgain
    BY <1>2, TabAgainShown DEF TabAgain, Key, PrefixTypes
  <1>3. CASE TabComplete
    <2>1. Completed(Text(buf)) /\ buf \in Buffers
      BY <1>3, CompletedText DEF LineInv, BufferTypes, TabComplete
    <2>2. Completions \in Seq(Strings) /\ prefixes' = Completions
      BY <1>3, <2>1, CompletionsAre DEF TabComplete
    <2>3. prefixIdx' \in Nat
      <3>1. prefixIdx' = prefixIdx \/ prefixIdx' = 0
        BY <1>3, Zenon DEF TabComplete
      <3>2. QED BY <3>1 DEF PrefixTypes
    <2>4. ASSUME ~overrun', NEW n \in DOMAIN Completions PROVE Len(Completions[n]) < BUFLEN
      <3>1. ~(Len(Completions[n]) >= BUFLEN)
        <4>1. Completions # << >>
          BY <2>4
        <4>2. overrun' = \E m \in DOMAIN Completions : Len(Completions[m]) >= BUFLEN
          BY <1>3, <4>1, Zenon DEF TabComplete
        <4>3. QED BY <2>4, <4>2
      <3>2. Len(Completions[n]) \in Nat
        BY <2>2, LenProperties, ElementOfSeq DEF Strings
      <3>3. QED BY <3>1, <3>2, LineAssumption
    <2>5. QED BY <2>2, <2>3, <2>4 DEF PrefixTypes
  <1>4. QED
    <2>1. CASE Next
      BY <1>1, <1>2, <1>3, <2>1 DEF Next, Type, TypeFull, Backspace, Del, Left, Right, Up, Down,
         TabIgnored, Enter, NextLine, Key, listVars
    <2>2. QED BY <1>1, <2>1 DEF vars, listVars

-----------------------------------------------------------------------------
(***************************************************************************)
(* The history.                                                            *)
(***************************************************************************)
\* A set of lines entered, numbered in the order they were entered in, is the
\* history, and from a line on only repetitions are missing from it.
Rank(kept, n) == Cardinality({m \in kept : m <= n})
RecentFrom(kept, from, lines, all) ==
    /\ kept \subseteq from .. Len(all)
    /\ Cardinality(kept) = Len(lines)
    /\ \A n \in kept : lines[Rank(kept, n)] = all[n]
    /\ \A n \in from .. Len(all) : n \in kept \/ (n > 1 /\ all[n] = all[n - 1])

HistoryInv ==
    /\ HistoryTypes
    /\ \E from \in Nat \ {0} : \E kept : RecentFrom(kept, from, history, entered)
    /\ history # << >> => entered # << >> /\ history[Len(history)] = entered[Len(entered)]

LEMMA NumbersFinite ==
    ASSUME NEW low \in Nat, NEW high \in Nat, NEW kept, kept \subseteq low .. high
    PROVE  IsFiniteSet(kept) /\ kept \subseteq Nat /\ Cardinality(kept) \in Nat
  <1>1. IsFiniteSet(low .. high)
    BY FS_Interval
  <1>2. IsFiniteSet(kept)
    BY <1>1, FS_Subset
  <1>3. QED BY <1>2, FS_CardinalityType

\* Nothing is in the history, whatever was entered.
LEMMA RecentNothing ==
    ASSUME NEW all \in Seq(Lines)
    PROVE  RecentFrom({}, Len(all) + 1, << >>, all)
  <1>1. Len(all) \in Nat
    BY LenProperties
  <1>2. Cardinality({}) = 0
    BY FS_EmptySet
  <1>3. QED BY <1>1, <1>2 DEF RecentFrom

\* A new line comes last.
LEMMA RecentAppend ==
    ASSUME NEW lines \in Seq(Lines), NEW all \in Seq(Lines), NEW line \in Lines,
           NEW from \in Nat \ {0}, NEW kept, RecentFrom(kept, from, lines, all),
           from <= Len(all) + 1
    PROVE  RecentFrom(kept \cup {Len(all) + 1}, from, Append(lines, line), Append(all, line))
  <1> DEFINE N == Len(all)
             more == kept \cup {N + 1}
             lines2 == Append(lines, line)
             all2 == Append(all, line)
  <1>1. N \in Nat /\ Len(lines) \in Nat
    BY LenProperties
  <1>2. /\ kept \subseteq from .. N /\ Cardinality(kept) = Len(lines)
        /\ \A n \in kept : lines[Rank(kept, n)] = all[n]
        /\ \A n \in from .. N : n \in kept \/ (n > 1 /\ all[n] = all[n - 1])
    BY DEF RecentFrom
  <1>3. IsFiniteSet(kept) /\ N + 1 \notin kept
    <2>1. IsFiniteSet(kept)
      BY <1>1, <1>2, NumbersFinite
    <2>2. QED BY <1>1, <1>2, <2>1
  <1>4. Cardinality(more) = Len(lines) + 1
    BY <1>2, <1>3, FS_AddElement
  <1>5. /\ Len(lines2) = Len(lines) + 1 /\ Len(all2) = N + 1
        /\ \A n \in 1 .. Len(lines) : lines2[n] = lines[n]
        /\ lines2[Len(lines) + 1] = line
        /\ \A n \in 1 .. N : all2[n] = all[n]
        /\ all2[N + 1] = line
    BY AppendProperties
  <1>6. from <= N + 1
    OBVIOUS
  <1> HIDE DEF N, more, lines2, all2
  <1>7. \A n \in more : n \in from .. N + 1 /\ n \in Nat /\ n <= N + 1
    BY <1>1, <1>2, <1>6 DEF more
  <1>8. more \subseteq from .. Len(all2)
    BY <1>5, <1>7
  <1>9. ASSUME NEW n \in more PROVE lines2[Rank(more, n)] = all2[n]
    <2>1. CASE n = N + 1
      <3>1. {m \in more : m <= N + 1} = more
        BY <1>7
      <3>2. Rank(more, N + 1) = Len(lines) + 1
        BY <1>4, <3>1 DEF Rank
      <3>3. QED BY <1>5, <2>1, <3>2
    <2>2. CASE n # N + 1
      <3>1. n \in kept /\ n \in 1 .. N
        BY <1>1, <1>2, <1>9, <2>2 DEF more
      <3>2. {m \in more : m <= n} = {m \in kept : m <= n}
        BY <1>1, <3>1 DEF more
      <3>3. Rank(more, n) = Rank(kept, n)
        BY <3>2 DEF Rank
      <3>4. Rank(kept, n) \in 1 .. Len(lines)
        <4> DEFINE below == {m \in kept : m <= n}
        <4>1. below \subseteq kept /\ n \in below
          BY <3>1
        <4>2. IsFiniteSet(below) /\ Cardinality(below) \in Nat /\ Cardinality(below) <= Cardinality(kept)
          BY <1>3, <4>1, FS_Subset, FS_CardinalityType
        <4>3. Cardinality(below) # 0
          BY <4>1, <4>2, FS_EmptySet
        <4>4. QED BY <1>1, <1>2, <4>2, <4>3 DEF Rank
      <3>5. QED BY <1>2, <1>5, <3>1, <3>3, <3>4
    <2>3. QED BY <2>1, <2>2
  <1>10. ASSUME NEW n \in from .. Len(all2) 
        PROVE  n \in more \/ (n > 1 /\ all2[n] = all2[n - 1])
    <2>1. CASE n = N + 1
      BY <2>1 DEF more
    <2>2. CASE n # N + 1 /\ n \notin kept
      <3>1. n \in from .. N /\ n \in 1 .. N
        BY <1>1, <1>5, <1>10, <2>2
      <3>2. n > 1 /\ all[n] = all[n - 1]
        BY <1>2, <2>2, <3>1
      <3>3. n - 1 \in 1 .. N
        BY <1>1, <3>1, <3>2
      <3>4. QED BY <1>5, <3>1, <3>2, <3>3
    <2>3. CASE n \in kept
      BY <2>3 DEF more
    <2>4. QED BY <2>1, <2>2, <2>3
  <1>11. QED BY <1>4, <1>5, <1>9, <1>10, <1>8 DEF RecentFrom, more, N, lines2, all2

\* The oldest line is dropped.
LEMMA RecentDrop ==
    ASSUME NEW lines \in Seq(Lines), lines # << >>, NEW all \in Seq(Lines),
           NEW from \in Nat \ {0}, NEW kept, RecentFrom(kept, from, lines, all)
    PROVE  \E low \in Nat \ {0} : \E less :
             low <= Len(all) + 1 /\ RecentFrom(less, low, Tail(lines), all)
  <1>1. Len(all) \in Nat /\ Len(lines) \in Nat \ {0}
    BY LenProperties, EmptySeq
  <1>2. /\ kept \subseteq from .. Len(all) /\ Cardinality(kept) = Len(lines)
        /\ \A n \in kept : lines[Rank(kept, n)] = all[n]
        /\ \A n \in from .. Len(all) : n \in kept \/ (n > 1 /\ all[n] = all[n - 1])
    BY DEF RecentFrom
  <1>3. IsFiniteSet(kept) /\ kept \subseteq Nat
    BY <1>1, <1>2, NumbersFinite
  <1>4. kept # {}
    BY <1>1, <1>2, FS_EmptySet
  <1>5. PICK first \in kept : \A n \in kept : first <= n
    BY <1>3, <1>4, LeastNumber
  <1> DEFINE less == kept \ {first}
             low == first + 1
  <1>6. /\ first \in Nat \ {0} /\ first <= Len(all) /\ from <= first
        /\ low \in Nat \ {0} /\ low <= Len(all) + 1
    BY <1>1, <1>2, <1>5
  <1>7. Cardinality(less) = Len(lines) - 1
    BY <1>2, <1>3, <1>5, FS_RemoveElement
  <1>8. /\ Len(Tail(lines)) = Len(lines) - 1
        /\ \A n \in 1 .. Len(lines) - 1 : Tail(lines)[n] = lines[n + 1]
    BY HeadTailProperties
  <1>9. \A n \in less : n \in low .. Len(all)
    BY <1>1, <1>2, <1>5, <1>6
  <1>10. ASSUME NEW n \in less PROVE Tail(lines)[Rank(less, n)] = all[n]
    <2> DEFINE below == {m \in kept : m <= n}
               rest == {m \in less : m <= n}
    <2>1. below \subseteq kept /\ first \in below /\ rest = below \ {first} /\ n \in rest
          /\ n \in kept
      BY <1>3, <1>5, <1>10
    <2>2. IsFiniteSet(below) /\ Cardinality(below) \in Nat /\ Cardinality(below) <= Cardinality(kept)
      BY <1>3, <2>1, FS_Subset, FS_CardinalityType
    <2>3. /\ Cardinality(rest) = Cardinality(below) - 1 /\ IsFiniteSet(rest)
          /\ Cardinality(rest) \in Nat
      <3>1. /\ Cardinality(below \ {first}) = Cardinality(below) - 1
            /\ IsFiniteSet(below \ {first})
        BY <2>1, <2>2, FS_RemoveElement
      <3>2. QED BY <2>1, <3>1, FS_CardinalityType
    <2>4. Cardinality(rest) # 0
      BY <2>1, <2>3, FS_EmptySet
    <2>5. Rank(less, n) = Cardinality(rest) /\ Rank(kept, n) = Cardinality(below)
      BY DEF Rank
    <2> HIDE DEF below, rest
    <2>6. Rank(less, n) \in 1 .. Len(lines) - 1 /\ Rank(less, n) + 1 = Rank(kept, n)
      BY <1>1, <1>2, <2>2, <2>3, <2>4, <2>5
    <2>7. lines[Rank(kept, n)] = all[n]
      BY <1>2, <2>1
    <2>8. QED BY <1>8, <2>6, <2>7
  <1>11. ASSUME NEW n \in low .. Len(all)
         PROVE  n \in less \/ (n > 1 /\ all[n] = all[n - 1])
    <2>1. n \in from .. Len(all) /\ n # first
      BY <1>1, <1>6, <1>11
    <2>2. QED BY <1>2, <2>1
  <1>12. RecentFrom(less, low, Tail(lines), all)
    BY <1>7, <1>8, <1>9, <1>10, <1>11 DEF RecentFrom
  <1>13. QED BY <1>6, <1>12

\* The newest line once more.
LEMMA RecentSame ==
    ASSUME NEW lines \in Seq(Lines), NEW all \in Seq(Lines), all # << >>,
           NEW from \in Nat \ {0}, NEW kept, RecentFrom(kept, from, lines, all)
    PROVE  RecentFrom(kept, from, lines, Append(all, all[Len(all)]))
  <1> DEFINE N == Len(all)
             all2 == Append(all, all[Len(all)])
  <1>1. N \in Nat \ {0} /\ all[N] \in Lines
    BY EmptySeq, LenProperties, ElementOfSeq
  <1>2. /\ Len(all2) = N + 1
        /\ \A n \in 1 .. N : all2[n] = all[n]
        /\ all2[N + 1] = all[N]
    BY <1>1, AppendProperties
  <1>3. /\ kept \subseteq from .. N /\ Cardinality(kept) = Len(lines)
        /\ \A n \in kept : lines[Rank(kept, n)] = all[n]
        /\ \A n \in from .. N : n \in kept \/ (n > 1 /\ all[n] = all[n - 1])
    BY DEF RecentFrom
  <1> HIDE DEF N, all2
  <1>4. \A n \in kept : n \in from .. N + 1 /\ n \in 1 .. N
    BY <1>1, <1>3
  <1>5. ASSUME NEW n \in from .. N + 1 PROVE n \in kept \/ (n > 1 /\ all2[n] = all2[n - 1])
    <2>1. CASE n = N + 1
      <3>1. n - 1 = N /\ N \in 1 .. N /\ n > 1
        BY <1>1, <2>1
      <3>2. all2[n - 1] = all[N] /\ all2[n] = all[N]
        BY <1>2, <2>1, <3>1
      <3>3. QED BY <3>1, <3>2
    <2>2. CASE n # N + 1 /\ n \notin kept
      <3>1. n \in from .. N /\ n \in 1 .. N
        BY <1>1, <1>5, <2>2
      <3>2. n > 1 /\ all[n] = all[n - 1]
        BY <1>3, <2>2, <3>1
      <3>3. n - 1 \in 1 .. N
        BY <1>1, <3>1, <3>2
      <3>4. QED BY <1>2, <3>1, <3>2, <3>3
    <2>3. QED BY <2>1, <2>2
  <1>6. QED BY <1>2, <1>3, <1>4, <1>5 DEF RecentFrom, all2

LEMMA HistoryInvRecent == HistoryInv => HistoryIsRecent
  <1> SUFFICES ASSUME HistoryInv, history # << >>
               PROVE  \E kept \in SUBSET (DOMAIN entered) :
                        /\ Cardinality(kept) = Len(history)
                        /\ \A n \in kept :
                             history[Cardinality({m \in kept : m <= n})] = entered[n]
                        /\ \A n \in Least(kept) .. Len(entered) :
                             n \in kept \/ entered[n] = entered[n - 1]
    BY DEF HistoryIsRecent
  <1>1. PICK from \in Nat \ {0} : \E kept : RecentFrom(kept, from, history, entered)
    BY DEF HistoryInv
  <1>2. PICK kept : RecentFrom(kept, from, history, entered)
    BY <1>1
  <1>3. /\ kept \subseteq from .. Len(entered)
        /\ Cardinality(kept) = Len(history)
        /\ \A n \in kept : history[Rank(kept, n)] = entered[n]
        /\ \A n \in from .. Len(entered) : n \in kept \/ (n > 1 /\ entered[n] = entered[n - 1])
    BY <1>2 DEF RecentFrom
  <1>4. Len(entered) \in Nat /\ DOMAIN entered = 1 .. Len(entered) /\ Len(history) \in Nat \ {0}
    BY LenProperties, EmptySeq DEF HistoryInv, HistoryTypes
  <1>5. kept # {} /\ kept \subseteq Nat
    <2>1. kept # {}
      BY <1>3, <1>4, FS_EmptySet
    <2>2. kept \subseteq Nat
      BY <1>3, <1>4, NumbersFinite
    <2>3. QED BY <2>1, <2>2
  <1>6. Least(kept) \in kept
    BY <1>5, LeastOf
  <1>7. from <= Least(kept) /\ Least(kept) \in Nat
    <2>1. Least(kept) \in from .. Len(entered)
      BY <1>3, <1>6
    <2>2. QED BY <1>4, <2>1
  <1>8. kept \in SUBSET (DOMAIN entered)
    BY <1>3, <1>4
  <1>9. \A n \in kept : history[Cardinality({m \in kept : m <= n})] = entered[n]
    BY <1>3 DEF Rank
  <1>10. \A n \in Least(kept) .. Len(entered) : n \in kept \/ entered[n] = entered[n - 1]
    <2>1. \A n \in Least(kept) .. Len(entered) : n \in from .. Len(entered)
      BY <1>4, <1>7
    <2>2. QED BY <1>3, <2>1
  <1>11. QED BY <1>3, <1>8, <1>9, <1>10

\* The line that Enter stores.
LEMMA LineEntered ==
    ASSUME LineInv, lastAt \in Index
    PROVE  Text([buf EXCEPT ![lastAt] = NUL]) \in Lines
  <1> DEFINE b == [buf EXCEPT ![lastAt] = NUL]
  <1>1. buf \in Buffers /\ BUFLEN \in Nat /\ Index = 0 .. BUFLEN - 1
    BY LineNumbers
  <1>2. b \in Buffers /\ b[lastAt] = NUL
    BY <1>1, MarksAreChars DEF Buffers
  <1> HIDE DEF b
  <1>3. EndsAt(b, strlen(b))
    BY StrlenEnds
  <1>4. strlen(b) <= lastAt /\ lastAt < BUFLEN /\ lastAt \in Nat /\ strlen(b) \in Nat
    BY <1>1, <1>2, <1>3 DEF EndsAt
  <1>5. Text(b) \in Strings /\ Len(Text(b)) = strlen(b)
    BY <1>2, TextIsString
  <1>6. Text(b) \in Lines
    BY <1>1, <1>4, <1>5 DEF Lines
  <1>7. QED BY <1>6 DEF b

LEMMA HistoryStep ==
    ASSUME LineInv, HistoryInv, [Next]_vars
    PROVE  HistoryInv'
  <1>1. /\ history \in Seq(Lines) /\ entered \in Seq(Lines)
        /\ Len(history) <= HISTORY_MAX + 1 /\ commandidx \in 0 .. HISTORY_MAX + 1
        /\ Len(history) \in Nat /\ Len(entered) \in Nat /\ HISTORY_MAX \in Nat
    BY LenProperties, LineAssumption DEF HistoryInv, HistoryTypes
  <1>2. CASE UNCHANGED <<history, entered>>
    <2>1. commandidx' \in 0 .. HISTORY_MAX + 1
      <3>1. CASE commandidx' = commandidx
        BY <1>1, <3>1
      <3>2. CASE Up
        BY <1>1, <3>2 DEF Up
      <3>3. CASE Down
        BY <1>1, <3>3 DEF Down, last_command_idx
      <3>4. CASE Enter /\ lastAt \notin Index
        BY <1>1, <3>4 DEF Enter
      <3>5. CASE Enter /\ lastAt \in Index
        BY <1>1, <1>2, <3>5 DEF Enter, NextLine
      <3>6. QED
        BY <3>1, <3>2, <3>3, <3>4, <3>5 DEF Next, vars, Type, TypeFull, Backspace, Del, Left, Right,
           TabAgain, TabIgnored, TabComplete
    <2>2. QED BY <1>2, <2>1 DEF HistoryInv, HistoryTypes
  <1>3. CASE Enter /\ lastAt \in Index
    <2> DEFINE line == Text([buf EXCEPT ![lastAt] = NUL])
    <2>1. /\ history' \in Stored(line) /\ entered' = Append(entered, line)
          /\ commandidx' = Len(history')
      BY <1>3 DEF Enter, NextLine
    <2>2. line \in Lines
      BY <1>3, LineEntered
    <2> HIDE DEF line
    <2>3. /\ entered' \in Seq(Lines) /\ entered' # << >> /\ Len(entered') = Len(entered) + 1
          /\ entered'[Len(entered')] = line
      BY <1>1, <2>1, <2>2, AppendProperties
    <2>4. PICK from \in Nat \ {0} : \E kept : RecentFrom(kept, from, history, entered)
      BY DEF HistoryInv
    <2>5. PICK kept : RecentFrom(kept, from, history, entered)
      BY <2>4
    <2>6. ASSUME NEW lines \in Seq(Lines), Len(lines) <= HISTORY_MAX, history' = Append(lines, line),
                 NEW low \in Nat \ {0}, low <= Len(entered) + 1,
                 NEW some, RecentFrom(some, low, lines, entered)
          PROVE  HistoryInv'
      <3>1. /\ history' \in Seq(Lines) /\ history' # << >> /\ Len(history') = Len(lines) + 1
            /\ history'[Len(history')] = line
        BY <2>2, <2>6, AppendProperties
      <3>2. RecentFrom(some \cup {Len(entered) + 1}, low, history', entered')
        BY <1>1, <2>1, <2>2, <2>6, RecentAppend
      <3>3. Len(history') <= HISTORY_MAX + 1 /\ commandidx' \in 0 .. HISTORY_MAX + 1
        BY <1>1, <2>1, <2>6, <3>1, LenProperties
      <3>4. QED BY <2>3, <3>1, <3>2, <3>3 DEF HistoryInv, HistoryTypes
    <2>7. CASE history = << >>
      <3>1. HISTORY_MAX # 0 - 1 /\ Len(history) = 0
        BY <1>1, <2>7
      <3>2. history' = << >> \/ history' = <<line>>
        BY <1>1, <2>1, <2>7, <3>1 DEF Stored, last_command_idx
      <3>3. CASE history' = << >>
        <4>1. RecentFrom({}, Len(entered') + 1, history', entered')
          BY <2>3, <3>3, RecentNothing
        <4>2. history' \in Seq(Lines) /\ Len(history') = 0
          BY <3>3, EmptySeq
        <4>3. Len(entered') + 1 \in Nat \ {0}
          BY <1>1, <2>3
        <4>4. QED BY <1>1, <2>1, <2>3, <3>3, <4>1, <4>2, <4>3 DEF HistoryInv, HistoryTypes
      <3>4. CASE history' = <<line>>
        <4>1. history' = Append(<< >>, line)
          BY <3>4
        <4>2. /\ << >> \in Seq(Lines) /\ Len(<< >>) <= HISTORY_MAX
              /\ Len(entered) + 1 \in Nat \ {0} /\ Len(entered) + 1 <= Len(entered) + 1
          BY <1>1, EmptySeq
        <4>3. RecentFrom({}, Len(entered) + 1, << >>, entered)
          BY <1>1, RecentNothing
        <4>4. QED BY <2>6, <4>1, <4>2, <4>3
      <3>5. QED BY <3>2, <3>3, <3>4
    <2>8. CASE history # << >> /\ Len(history) = HISTORY_MAX + 1
      <3>1. history' = Append(Tail(history), line)
        BY <1>1, <2>1, <2>8 DEF Stored, last_command_idx
      <3>2. Tail(history) \in Seq(Lines) /\ Len(Tail(history)) = Len(history) - 1
        BY <1>1, <2>8, HeadTailProperties
      <3>3. PICK low \in Nat \ {0} : \E less :
              low <= Len(entered) + 1 /\ RecentFrom(less, low, Tail(history), entered)
        BY <1>1, <2>5, <2>8, RecentDrop
      <3>4. PICK less : low <= Len(entered) + 1 /\ RecentFrom(less, low, Tail(history), entered)
        BY <3>3
      <3>5. Len(Tail(history)) <= HISTORY_MAX
        BY <1>1, <2>8, <3>2
      <3>6. QED BY <2>6, <3>1, <3>2, <3>4, <3>5, Zenon
    <2>9. CASE history # << >> /\ Len(history) # HISTORY_MAX + 1 /\ history[Len(history)] = line
      <3>1. history' = history
        BY <1>1, <2>1, <2>9 DEF Stored, last_command_idx
      <3>2. entered # << >> /\ entered[Len(entered)] = line
        BY <2>9 DEF HistoryInv
      <3>3. RecentFrom(kept, from, history', entered')
        BY <1>1, <2>1, <2>5, <3>1, <3>2, RecentSame
      <3>4. commandidx' \in 0 .. HISTORY_MAX + 1
        BY <1>1, <2>1, <3>1
      <3>5. QED BY <1>1, <2>3, <2>9, <3>1, <3>3, <3>4 DEF HistoryInv, HistoryTypes
    <2>10. CASE history # << >> /\ Len(history) # HISTORY_MAX + 1 /\ history[Len(history)] # line
      <3>1. history' = Append(history, line)
        BY <1>1, <2>1, <2>10 DEF Stored, last_command_idx
      <3>2. Len(history) <= HISTORY_MAX
        BY <1>1, <2>10
      <3>3. from <= Len(entered) + 1
        <4>1. kept \subseteq from .. Len(entered) /\ Cardinality(kept) = Len(history)
          BY <2>5 DEF RecentFrom
        <4>2. kept # {}
          BY <1>1, <2>10, <4>1, EmptySeq, FS_EmptySet
        <4>3. PICK n \in kept : n \in from .. Len(entered)
          BY <4>1, <4>2
        <4>4. QED BY <1>1, <4>3
      <3>4. QED BY <1>1, <2>5, <2>6, <3>1, <3>2, <3>3
    <2>11. QED BY <2>7, <2>8, <2>9, <2>10
  <1>4. QED
    BY <1>2, <1>3 DEF Next, vars, Type, TypeFull, Backspace, Del, Left, Right, Up, Down,
       TabAgain, TabIgnored, TabComplete, Enter

\* The line of the history that the arrows show is one of it, and the last
\* when no key was pressed yet.
ArrowInv ==
    /\ commandidx <= Len(history)
    /\ lastC = "unset" /\ ~overrun => commandidx = Len(history)

LEMMA ArrowStep ==
    ASSUME LineInv, HistoryTypes, ArrowInv, [Next]_vars
    PROVE  ArrowInv'
  <1>1. Len(history) \in Nat /\ commandidx \in Nat
    BY LenProperties, LineAssumption DEF HistoryTypes
  <1>2. CASE UNCHANGED <<history, commandidx>> /\ (lastC' = lastC \/ lastC' # "unset")
             /\ (overrun => overrun')
    BY <1>2 DEF ArrowInv
  <1>3. CASE Up \/ Down
    <2>1. history' = history /\ lastC' = "other"
      BY <1>3 DEF Up, Down, Key
    <2>2. commandidx' <= Len(history)
      BY <1>1, <1>3 DEF Up, Down, last_command_idx, ArrowInv
    <2>3. QED BY <2>1, <2>2 DEF ArrowInv
  <1>4. CASE Enter /\ lastAt \in Index
    <2> DEFINE line == Text([buf EXCEPT ![lastAt] = NUL])
    <2>1. history' \in Stored(line) /\ commandidx' = Len(history') /\ line \in Lines
      BY <1>4, LineEntered DEF Enter, NextLine
    <2> HIDE DEF line
    <2>2. history' \in Seq(Lines)
      <3>1. history \in Seq(Lines) /\ HISTORY_MAX \in Nat
        BY LineAssumption DEF HistoryTypes
      <3>2. << >> \in Seq(Lines) /\ <<line>> \in Seq(Lines) /\ Append(history, line) \in Seq(Lines)
        BY <2>1, <3>1, EmptySeq, AppendProperties
      <3>3. history # << >> => Append(Tail(history), line) \in Seq(Lines)
        BY <2>1, <3>1, HeadTailProperties, AppendProperties
      <3>4. Len(history) = HISTORY_MAX + 1 => history # << >>
        BY <3>1
      <3>5. QED BY <1>1, <2>1, <3>1, <3>2, <3>3, <3>4 DEF Stored, last_command_idx
    <2>3. Len(history') \in Nat
      BY <2>2, LenProperties
    <2>4. QED BY <2>1, <2>3 DEF ArrowInv
  <1>5. CASE Enter /\ lastAt \notin Index
    BY <1>5 DEF Enter, ArrowInv
  <1>6. CASE TabAgain
    BY <1>2, <1>6 DEF TabAgain, Key
  <1>7. CASE TabIgnored \/ TabComplete
    BY <1>2, <1>7 DEF TabIgnored, TabComplete, Key
  <1>8. CASE UNCHANGED vars
    BY <1>2, <1>8 DEF vars, editVars
  <1>9. CASE Backspace \/ Del \/ Left \/ Right
    BY <1>2, <1>9 DEF Backspace, Del, Left, Right, Key
  <1>10. CASE \E c \in Letters \cup {Blank, DelChar} : Type(c) \/ TypeFull(c)
    BY <1>2, <1>10 DEF Type, TypeFull, Key
  <1>11. QED
    BY <1>3, <1>4, <1>5, <1>6, <1>7, <1>8, <1>9, <1>10 DEF Next

LEMMA UpRecalls ==
    ASSUME LineInv, HistoryInv, ArrowInv
    PROVE  UpShowsPrevious
  <1> SUFFICES ASSUME Up
               PROVE  IF history = << >> THEN Text(buf') = << >>
                      ELSE /\ lastC = "unset" \/ commandidx = Len(history)
                                => Text(buf') = entered[Len(entered)]
                           /\ Text(buf') = history[Largest({commandidx, 1})]
    BY DEF UpShowsPrevious
  <1>1. /\ HistoryTypes /\ commandidx \in Nat /\ HISTORY_MAX \in Nat
        /\ Len(history) \in Nat /\ (history = << >> <=> Len(history) = 0)
        /\ commandidx <= Len(history) /\ commandidx <= HISTORY_MAX + 1
    BY LenProperties, EmptySeq, LineAssumption DEF HistoryInv, HistoryTypes, ArrowInv
  <1>2. commandidx' = IF commandidx > 0 THEN commandidx - 1 ELSE 0
    BY DEF Up
  <1>3. PICK s \in Recallable(commandidx') : clearandwritecommand(s)
    BY DEF Up
  <1>4. s \in Lines
    <2>1. commandidx' \in Nat
      BY <1>1, <1>2
    <2>2. QED BY <1>1, <2>1, RecallableLines
  <1>5. Text(buf') = s
    BY <1>3, <1>4, WrittenLine DEF clearandwritecommand
  <1>6. CASE history = << >>
    <2>1. commandidx' = 0 /\ Len(history) = 0
      BY <1>1, <1>2, <1>6
    <2>2. s = << >>
      BY <1>1, <1>3, <2>1 DEF Recallable
    <2>3. QED BY <1>5, <1>6, <2>2
  <1>7. CASE history # << >>
    <2>1. commandidx' < Len(history) /\ commandidx' + 1 = Largest({commandidx, 1})
      BY <1>1, <1>2, <1>7, LargestOfTwo
    <2>2. s = history[Largest({commandidx, 1})]
      BY <1>3, <2>1 DEF Recallable
    <2>3. ASSUME lastC = "unset" \/ commandidx = Len(history)
          PROVE  s = entered[Len(entered)]
      <3>1. ~overrun
        BY DEF Up, Key
      <3>2. commandidx = Len(history)
        BY <2>3, <3>1 DEF ArrowInv
      <3>3. Largest({commandidx, 1}) = Len(history)
        BY <1>1, <1>7, <3>2, LargestOfTwo
      <3>4. QED BY <1>7, <2>2, <3>3 DEF HistoryInv
    <2>4. QED BY <1>5, <1>7, <2>2, <2>3
  <1>8. QED BY <1>6, <1>7

LEMMA TabNames ==
    ASSUME LineInv
    PROVE  TabShowsName
  <1> SUFFICES ASSUME TabComplete, ~BehindBlanks
               PROVE  /\ \A n \in DOMAIN prefixes' :
                           /\ Len(prefixes'[n]) >= strlen(buf)
                           /\ SubSeq(prefixes'[n], 1, strlen(buf)) = Text(buf)
                      /\ prefixes' # << >> /\ ~overrun' =>
                           \/ Text(buf') = prefixes'[1]
                           \/ \E k \in Index : k >= strlen(buf) /\ LeftOver(k)
    BY Zenon DEF TabShowsName
  <1>1. Completed(Text(buf)) /\ buf \in Buffers
    BY CompletedText DEF LineInv, BufferTypes, TabComplete
  <1>2. prefixes' = Completions
    BY Zenon DEF TabComplete
  <1>3. \A n \in DOMAIN Completions :
           /\ Len(Completions[n]) >= strlen(buf)
           /\ SubSeq(Completions[n], 1, strlen(buf)) = Text(buf)
    BY <1>1, CompletionsAre DEF Extends
  <1>4. ASSUME Completions # << >>, ~overrun',
               ~\E k \in Index : k >= strlen(buf) /\ LeftOver(k)
        PROVE  Text(buf') = Completions[1]
    <2>1. /\ buf' = Written(Cut, Completions[1])
          /\ overrun' = \E n \in DOMAIN Completions : Len(Completions[n]) >= BUFLEN
      BY <1>4, Zenon DEF TabComplete
    <2>2. Clean(buf)
      BY <1>4 DEF Clean, LeftOver
    <2>3. 1 \in DOMAIN Completions /\ Len(Completions[1]) \in Nat
      <3>1. Completions \in Seq(Strings)
        BY <1>1, CompletionsAre
      <3>2. Len(Completions) \in Nat \ {0} /\ DOMAIN Completions = 1 .. Len(Completions)
        BY <1>4, <3>1, EmptySeq, LenProperties
      <3>3. 1 \in 1 .. Len(Completions)
        BY <3>2
      <3>4. Completions[1] \in Strings
        BY <3>1, <3>3, ElementOfSeq
      <3>5. QED BY <3>2, <3>3, <3>4, LenProperties DEF Strings
    <2>4. Len(Completions[1]) < BUFLEN
      <3>1. ~(Len(Completions[1]) >= BUFLEN)
        BY <1>4, <2>1, <2>3
      <3>2. QED BY <2>3, <3>1, LineAssumption
    <2>5. QED BY <1>1, <2>1, <2>2, <2>3, <2>4, FoundWritten
  <1>5. QED BY <1>2, <1>3, <1>4

\* The screen as the property describes it.
LEMMA LineInvShown == LineInv => LineIsShown
  <1> SUFFICES ASSUME LineInv PROVE ScreenIsLine
    BY DEF LineInv, LineIsShown
  <1> DEFINE text == Text(buf)
             line == Prompt \o text
  <1>1. SUFFICES ASSUME edits = "end", ~overrun
                 PROVE  /\ \A k \in DOMAIN line : k <= Len(cells) /\ cells[k] = line[k]
                        /\ \A k \in DOMAIN cells : k > Len(line) => cells[k] = Blank
                        /\ pos = Len(Prompt) + i
    BY DEF ScreenIsLine
  <1>2. RowShows(cells, text) /\ pos = 2 + i /\ buf \in Buffers
    BY <1>1 DEF LineInv, EndShown, BufferTypes
  <1>3. text \in Strings /\ Len(text) \in Nat
    BY <1>2, TextIsString, LenProperties DEF Strings
  <1>4. text \in Seq(Cells) /\ Prompt \in Seq(Cells) /\ Len(Prompt) = 2
    BY <1>3, EmptyRow, MarksAreChars, SeqMonotonic DEF Strings, Cells
  <1>5. Prompt[1] = "FOS" /\ Prompt[2] = ">"
    BY DEF Prompt
  <1> HIDE DEF text
  <1>6. /\ line \in Seq(Cells) /\ Len(line) = 2 + Len(text)
        /\ \A k \in 1 .. 2 + Len(text) :
             line[k] = IF k <= 2 THEN Prompt[k] ELSE text[k - 2]
    <2>1. /\ Prompt \o text \in Seq(Cells)
          /\ Len(Prompt \o text) = Len(Prompt) + Len(text)
          /\ \A k \in 1 .. Len(Prompt) + Len(text) :
               (Prompt \o text)[k] = IF k <= Len(Prompt) THEN Prompt[k]
                                                       ELSE text[k - Len(Prompt)]
      BY <1>4, ConcatProperties
    <2> DEFINE both == Prompt \o text
               size2 == Len(Prompt)
    <2>2. /\ both \in Seq(Cells) /\ Len(both) = size2 + Len(text)
          /\ \A k \in 1 .. size2 + Len(text) :
               both[k] = IF k <= size2 THEN Prompt[k] ELSE text[k - size2]
      BY <2>1
    <2>3. size2 = 2
      BY <1>4
    <2>4. line = both
      OBVIOUS
    <2> HIDE DEF line, both, size2
    <2>5. QED BY <2>2, <2>3, <2>4
  <1> HIDE DEF line
  <1>7. Len(cells) \in Nat /\ DOMAIN cells = 1 .. Len(cells) /\ DOMAIN line = 1 .. 2 + Len(text)
    BY <1>6, LenProperties DEF LineInv, ScreenTypes
  <1>8. ASSUME NEW k \in 1 .. 2 + Len(text) PROVE k <= Len(cells) /\ cells[k] = line[k]
    <2>1. k <= Len(cells)
      BY <1>2, <1>3, <1>7, <1>8 DEF RowShows
    <2>2. CASE k <= 2
      <3>1. k = 1 \/ k = 2
        BY <1>3, <1>8, <2>2
      <3>2. QED BY <1>2, <1>5, <1>6, <1>8, <2>1, <2>2, <3>1 DEF RowShows
    <2>3. CASE ~(k <= 2)
      <3>1. k \in 3 .. Len(text) + 2
        BY <1>3, <1>8, <2>3
      <3>2. QED BY <1>2, <1>6, <1>8, <2>1, <2>3, <3>1 DEF RowShows
    <2>4. QED BY <2>2, <2>3
  <1>9. ASSUME NEW k \in 1 .. Len(cells), k > Len(line) PROVE cells[k] = Blank
    <2>1. k > Len(text) + 2
      BY <1>3, <1>6, <1>9
    <2>2. QED BY <1>2, <2>1 DEF RowShows
  <1>10. QED BY <1>2, <1>4, <1>7, <1>8, <1>9

-----------------------------------------------------------------------------
\* What the line editor keeps.
EditorInv == LineInv /\ PrefixTypes /\ HistoryInv /\ ArrowInv

LEMMA EditorStart == Init => EditorInv
  <1> SUFFICES ASSUME Init PROVE EditorInv
    OBVIOUS
  <1>1. LineInv
    BY FreshLineInv DEF Init, FreshLine
  <1>2. << >> \in Seq(Strings) /\ << >> \in Seq(Lines) /\ Len(<< >>) = 0
    BY EmptySeq
  <1>3. PrefixTypes
    BY <1>2 DEF Init, PrefixTypes
  <1>4. HistoryTypes
    BY <1>2, LineAssumption DEF Init, HistoryTypes
  <1>5. RecentFrom({}, Len(entered) + 1, history, entered)
    BY <1>2, RecentNothing DEF Init
  <1>6. Len(entered) + 1 \in Nat \ {0}
    BY <1>2 DEF Init
  <1>7. HistoryInv /\ ArrowInv
    BY <1>2, <1>4, <1>5, <1>6 DEF Init, HistoryInv, ArrowInv
  <1>8. QED BY <1>1, <1>3, <1>7 DEF EditorInv

LEMMA EditorStep == EditorInv /\ [Next]_vars => EditorInv'
  <1> SUFFICES ASSUME EditorInv, [Next]_vars PROVE EditorInv'
    OBVIOUS
  <1>1. LineInv /\ PrefixTypes /\ HistoryInv /\ HistoryTypes /\ ArrowInv
    BY DEF EditorInv, HistoryInv
  <1>2. LineInv'
    BY <1>1, LineStep
  <1>3. PrefixTypes'
    BY <1>1, PrefixStep
  <1>4. HistoryInv'
    BY <1>1, HistoryStep
  <1>5. ArrowInv'
    BY <1>1, ArrowStep
  <1>6. QED BY <1>2, <1>3, <1>4, <1>5 DEF EditorInv

\* A step of the prompt is a step of the line editor, or leaves it alone: what a
\* command does depends on its words only.
LEMMA PromptEdits == [PromptNext]_allVars => [Next]_vars
  BY DEF PromptNext, Edit, Execute, allVars

LEMMA PromptEditor == PromptSpec => []EditorInv
  <1>1. PromptInit => EditorInv
    BY EditorStart DEF PromptInit
  <1>2. EditorInv /\ [PromptNext]_allVars => EditorInv'
    BY PromptEdits, EditorStep
  <1>3. QED BY <1>1, <1>2, PTL DEF PromptSpec

\* While keys only reach the end of the line, the row of the screen shows the
\* prompt and the text of the buffer, blank behind it, and the cursor stands behind
\* the text (command_prompt_readline, command_prompt.c:378-395).
THEOREM LineIsShownCorrect == PromptSpec => []LineIsShown
  BY PromptEditor, LineInvShown, PTL DEF EditorInv

\* The history is the end of what was entered, in that order, with a line entered
\* twice in a row kept once (command_prompt_readline, command_prompt.c:397-405).
THEOREM HistoryIsRecentCorrect == PromptSpec => []HistoryIsRecent
  <1>1. EditorInv => HistoryIsRecent
    BY HistoryInvRecent DEF EditorInv
  <1>2. QED BY PromptEditor, <1>1, PTL

\* The first Up of a line shows the line entered last and every other one the line
\* before the one the arrows showed last, and a Tab finds only what begins with the
\* line and leaves the first of it there, except for one word behind blanks and for
\* what is left behind the text (command_prompt.c:217-231, :278-351).
THEOREM KeysRecallCorrect == PromptSpec => KeysRecall
  <1>1. EditorInv => [UpShowsPrevious /\ TabShowsName]_vars
    <2> SUFFICES ASSUME EditorInv PROVE UpShowsPrevious /\ TabShowsName
      OBVIOUS
    <2>1. UpShowsPrevious
      BY UpRecalls DEF EditorInv
    <2>2. TabShowsName
      BY TabNames DEF EditorInv
    <2>3. QED BY <2>1, <2>2
  <1>2. QED BY PromptEditor, <1>1, PTL DEF PromptSpec, KeysRecall

=============================================================================
