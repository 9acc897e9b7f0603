------------------------------ MODULE LsuFlush ------------------------------
(***************************************************************************)
(* The flushes of the five LSU stages (design/lsu/lsu.sv), ordered by how  *)
(* deep they reach.  "upper": a mispredict resolved in e1/e3 that kills    *)
(* dc1 and dc2; "e3": it kills dc3 as well; "lower": writeback redirects   *)
(* the pipe but the operation in dc5 commits; "kill": the operation in dc5 *)
(* is killed too.                                                          *)
(***************************************************************************)
FlushLevel == {"none", "upper", "e3", "lower", "kill"}

flush_dc2_up(f) == f # "none"
flush_dc3(f)    == f \in {"e3", "lower", "kill"}
flush_dc4(f)    == f \in {"lower", "kill"}
flush_dc5(f)    == f = "kill"

(* A mispredict reaches the stages from the registers i0_flush_final_e3    *)
(* and i1_flush_final_e3 (dec_decode_ctl.sv).  A freeze that begins on the *)
(* edge that loads them holds them until it ends, and a flush from         *)
(* writeback sets both (exu.sv); on all other edges they are loaded with   *)
(* what the branches of that clock give, "any" for short.                  *)
FlushRegister == {"any", "none", "upper", "e3"}
FlushRegisterNext(f, frozen) ==
    IF frozen THEN f ELSE IF flush_dc4(f) THEN "e3" ELSE "any"
=============================================================================
