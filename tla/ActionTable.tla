----------------------------- MODULE ActionTable -----------------------------
(***************************************************************************)
(* The table of action handlers that prep_action_ptrs (stream.c) builds    *)
(* for one game build, and what each handler of actions.c does with its    *)
(* record: how many bytes it skips, whether it is counted as an action of  *)
(* the player, and what it does when no memory is left.                    *)
(*                                                                         *)
(* A handler is named after its C function without the "action_" prefix.   *)
(* An arr_add call is a pair <<id, handler>>, the table a set of pairs.    *)
(***************************************************************************)
EXTENDS Naturals

\* process_action_field accepts ids 1 .. TableLen - 1 (arr_alloc(0x76, ...)).
TableLen == 118

\* The registrations that do not depend on the build.
Common ==
    { <<1, "pause">>, <<2, "resume">>, <<3, "set_speed">>, <<4, "inc_speed">>,
      <<5, "dec_speed">>, <<6, "save">>, <<7, "saving_done">>,
      <<22, "change_selection">>, <<23, "assign_group_hotkey">>,
      <<24, "select_group_hotkey">>, <<32, "cheat_TheDudeAbides">>,
      <<34, "cheat_SomebodySetUpUsTheBomb">>, <<35, "cheat_WarpTen">>,
      <<36, "cheat_IocainePowder">>, <<37, "cheat_PointBreak">>,
      <<38, "cheat_WhosYourDaddy">>, <<39, "cheat_KeyserSoze">>,
      <<40, "cheat_LeafitToMe">>, <<41, "cheat_ThereIsNoSpoon">>,
      <<42, "cheat_StrengthAndHonor">>, <<43, "cheat_itvexesme">>,
      <<44, "cheat_WhoIsJohnGalt">>, <<45, "cheat_GreedIsGood">>,
      <<46, "cheat_DayLightSavings">>, <<47, "cheat_ISeeDeadPeople">>,
      <<48, "cheat_Synergy">>, <<49, "cheat_SharpAndShiny">>,
      <<50, "cheat_AllYourBaseAreBelongToUs">>, <<80, "change_ally_opts">>,
      <<81, "transfer_resources">>, <<96, "map_trigger_chat_command">>,
      <<97, "esc_keystroke">>, <<98, "scenario_trigger">>, <<117, "0x75_unknown">> }

\* The five ability records grew with 1.07 (build 6031) and 1.13 (6037).
AbilityEntries(build) ==
    IF build < 6031
    THEN { <<16, "ability_0_lt_107">>, <<17, "ability_1_lt_107">>,
           <<18, "ability_2_lt_107">>, <<19, "move_item_lt_107">>,
           <<20, "choose_ability_lt_107">> }
    ELSE IF build < 6037
    THEN { <<16, "ability_0_ge_107_lt_113">>, <<17, "ability_1_ge_107_lt_113">>,
           <<18, "ability_2_ge_107_lt_113">>, <<19, "move_item_ge_107_lt_113">>,
           <<20, "choose_ability_ge_107_lt_113">> }
    ELSE { <<16, "ability_0_ge_113">>, <<17, "ability_1_ge_113">>,
           <<18, "ability_2_ge_113">>, <<19, "move_item_ge_113">>,
           <<20, "choose_ability_ge_113">> }

\* The submenu records moved up by one id with 1.07.
SubmenuEntries(build) ==
    LET first == IF build < 6031 THEN 101 ELSE 102
    IN  { <<first, "hero_skill_submenu">>, <<first + 1, "worker_building_submenu">>,
          <<first + 2, "minimap_signal">>, <<first + 3, "continue_game_1">>,
          <<first + 4, "continue_game_0">> }

\* Subgroups changed with 1.14b (build 6040), the item records with 1.15 (6043).
SubgroupEntries(build) ==
    { <<25, IF build < 6040 THEN "select_subgroup_lt_114b"
                            ELSE "select_subgroup_ge_114b">> }

ItemEntries(build) ==
    LET first == IF build < 6043 THEN 26 ELSE 27
    IN  { <<first, "0x1A_0x1B_unknown">>, <<first + 1, "select_ground_item">>,
          <<first + 2, "cancel_hero_revival">>, <<first + 3, "reduce_building_queue">> }
        \cup (IF build < 6043 THEN {} ELSE { <<26, "pre_subselection">> })

ActionTable(build) ==
    Common \cup AbilityEntries(build) \cup SubmenuEntries(build)
           \cup SubgroupEntries(build) \cup ItemEntries(build)

Registered(build) == { entry[2] : entry \in ActionTable(build) }

UsedIds(build) == { entry[1] : entry \in ActionTable(build) }

-----------------------------------------------------------------------------
(***************************************************************************)
(* The handlers, by what they do with the record behind the action id.     *)
(***************************************************************************)

\* Counted as an action of the player before the record is skipped.
CountedFirst ==
    { "ability_0_lt_107", "ability_0_ge_107_lt_113", "ability_0_ge_113",
      "ability_1_lt_107", "ability_1_ge_107_lt_113",
      "ability_2_lt_107", "ability_2_ge_107_lt_113", "ability_2_ge_113",
      "move_item_lt_107", "move_item_ge_107_lt_113", "move_item_ge_113",
      "choose_ability_lt_107", "choose_ability_ge_107_lt_113", "choose_ability_ge_113",
      "esc_keystroke", "hero_skill_submenu" }

\* Counted only once the whole record turned out to be in the stream.
CountedAfter ==
    { "select_group_hotkey", "select_ground_item", "cancel_hero_revival",
      "reduce_building_queue" }

\* Of the counted handlers, those that give up when the log entry cannot be
\* allocated; the others ignore add_action's result.
NeedsMemory == { "ability_0_ge_113", "esc_keystroke", "hero_skill_submenu" }

\* Handlers whose record has a length of its own, or whose effect depends on
\* what the record says: each has an action of its own in DynStream.
Special ==
    { "save", "map_trigger_chat_command", "change_selection", "assign_group_hotkey",
      "select_subgroup_lt_114b", "ability_1_ge_113" }

\* The length of the fixed-size records; every handler not named skips nothing.
Size(handler) ==
    CASE handler \in { "set_speed", "0x75_unknown" } -> 1
      [] handler \in { "select_group_hotkey" } -> 2
      [] handler \in { "saving_done", "cheat_DayLightSavings" } -> 4
      [] handler \in { "ability_0_lt_107", "reduce_building_queue", "change_ally_opts",
                       "cheat_KeyserSoze", "cheat_LeafitToMe", "cheat_GreedIsGood" } -> 5
      [] handler \in { "cancel_hero_revival" } -> 8
      [] handler \in { "0x1A_0x1B_unknown", "select_ground_item",
                       "transfer_resources" } -> 9
      [] handler \in { "select_subgroup_ge_114b", "scenario_trigger",
                       "minimap_signal" } -> 12
      [] handler \in { "ability_0_ge_107_lt_113", "ability_1_lt_107" } -> 13
      [] handler \in { "ability_0_ge_113" } -> 14
      [] handler \in { "continue_game_0", "continue_game_1" } -> 16
      [] handler \in { "ability_1_ge_107_lt_113", "ability_2_lt_107" } -> 21
      [] handler \in { "ability_1_ge_113" } -> 22
      [] handler \in { "ability_2_ge_107_lt_113", "move_item_lt_107" } -> 29
      [] handler \in { "ability_2_ge_113" } -> 30
      [] handler \in { "choose_ability_lt_107" } -> 34
      [] handler \in { "move_item_ge_107_lt_113" } -> 37
      [] handler \in { "move_item_ge_113" } -> 38
      [] handler \in { "choose_ability_ge_107_lt_113" } -> 42
      [] handler \in { "choose_ability_ge_113" } -> 43
      [] OTHER -> 0
=============================================================================
