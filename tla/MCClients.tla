------------------------------ MODULE MCClients ------------------------------
(***************************************************************************)
(* A small instance of Clients for TLC: files of up to two segments, with  *)
(* headers on both sides of every check, decoded sizes of which the main   *)
(* header may say the sum, less or more; all tasks and one too large; two  *)
(* options; and memory that may fail at any allocation.                    *)
(***************************************************************************)
EXTENDS Clients

MCTasks == 0..8 \cup { 15 }

MCMainHdrs ==
    [magic_id : { "right", "first_nine" }, strm_offset : { 64, 68 },
     sub_hdr_ver : { 0, 1 }, dcd_data_size : { 2, 3, 5 }, ecd_sgmt_cnt : 0..2]
    \cup [magic_id : { "other" }, strm_offset : { 68 }, sub_hdr_ver : { 1 },
          dcd_data_size : { 2 }, ecd_sgmt_cnt : { 1 }]
    \cup [magic_id : { "right" }, strm_offset : { 68 }, sub_hdr_ver : { 2 },
          dcd_data_size : { 2 }, ecd_sgmt_cnt : { 1 }]

MCSubHdrs ==
    [rls : { "PX3W", "other", "absent" }, patch_ver : { 6, 41 },
     player_mode : { 1, 32768 }]

MCLetters  == { "a", "b", "j", "h", "?" }
MCJunkReqs == { {}, { "msgs" } }
=============================================================================
