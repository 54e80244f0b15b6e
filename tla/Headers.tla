------------------------------- MODULE Headers -------------------------------
(***************************************************************************)
(* The headers of a replay file and the checks of check.c: what read.c     *)
(* makes of a main header and of a sub-header, and which tasks a client    *)
(* may ask for.  Of a header the fields are kept that a later step looks   *)
(* at; a CRC, a length or a build is only stored.                          *)
(***************************************************************************)
EXTENDS Integers

(***************************************************************************)
(* Tasks: a bit each for basic and additional data and for the APM.        *)
(***************************************************************************)
BASIC == 1
ADDTL == 2
APM   == 4

Asks(task, bit) == (task \div bit) % 2 = 1

\* The masks that the loop of check_task goes through; with the fourth it fails.
Masks == { 1, 3, 7 }

\* A mistake to check against: every set of the three tasks will do.
AnyTask(task) == task \in 1..7

\* 1-bits from the lowest on, and none behind them: to ask for something is to
\* ask for all that it is made from.
check_task(task) == task \in Masks

-----------------------------------------------------------------------------
(***************************************************************************)
(* The main header.  Of its magic id it is known whether it is the right   *)
(* one, or agrees in the nine characters that are compared (sizeof of a    *)
(* pointer, and one), or not in them.                                      *)
(***************************************************************************)
MagicIds == { "right", "first_nine", "other" }

MainHdrs ==
    [magic_id : MagicIds, strm_offset : Nat, sub_hdr_ver : Nat,
     dcd_data_size : Nat, ecd_sgmt_cnt : Nat]

range_magic_id(magic_id) == magic_id # "other"

range_sub_hdr_ver(ver) == ver < 2

\* What bract.h says of the offset: 0x40 before version 1.07, and 0x44 otherwise.
OffsetByVersion(ver, offset) == offset = IF ver = 0 THEN 64 ELSE 68

\* The first branch answers for version 0 and another offset, and the second for
\* everything else, version 0 with the offset 0x40 included.
range_strm_offset(ver, offset) ==
    /\ ~(ver = 0 /\ offset # 64)
    /\ offset = 68

check_rep_main_hdr(hdr) ==
    /\ range_magic_id(hdr.magic_id)
    /\ range_sub_hdr_ver(hdr.sub_hdr_ver)
    /\ range_strm_offset(hdr.sub_hdr_ver, hdr.strm_offset)

-----------------------------------------------------------------------------
(***************************************************************************)
(* The sub-header.  In version 0 there is no release, and the patch        *)
(* version of the file goes to a variable that is not looked at: what is   *)
(* checked is then a field of the context that nothing was written to.     *)
(***************************************************************************)
SubHdrs ==
    [rls : { "3RAW", "PX3W", "other", "absent" }, patch_ver : Nat, player_mode : Nat]

\* The headers that version ver has.
HasVersion(hdr, ver) == hdr.rls = "absent" <=> ver = 0

\* The fields that are written for it.
Written(ver) ==
    { "build", "player_mode", "rep_len_ms" }
    \cup IF ver = 0 THEN {} ELSE { "rls", "patch_ver" }

range_rls(rls) == rls # "other"

range_patch_ver(patch_ver) == patch_ver <= 40

range_player_mode(player_mode) == player_mode \in { 0, 32768 }

check_rep_sub_hdr(hdr) ==
    /\ range_rls(hdr.rls)
    /\ range_patch_ver(hdr.patch_ver)
    /\ range_player_mode(hdr.player_mode)
=============================================================================
