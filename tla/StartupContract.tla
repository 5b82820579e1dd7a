--------------------------- MODULE StartupContract --------------------------
(***************************************************************************)
(* What daemonize_start promises whoever started the program with --detach *)
(* (Clang/daemon-unix.c:524-528): the process started hangs around until a *)
(* daemon completed its startup, and then exits with 0, or until the       *)
(* startup failed, and then exits with something else.                     *)
(***************************************************************************)

VARIABLES
  answer,   (* what the starter was told: "waiting", "ok" or "failed"      *)
  up        (* a daemon completed its startup                              *)

ContractInit == answer = "waiting" /\ up = FALSE

ComesUp     == up' = TRUE /\ UNCHANGED answer
AnswersOk   == answer = "waiting" /\ up /\ answer' = "ok" /\ UNCHANGED up
AnswersFail == answer = "waiting" /\ answer' = "failed" /\ UNCHANGED up

ContractNext == ComesUp \/ AnswersOk \/ AnswersFail

Contract == ContractInit /\ [][ContractNext]_<<answer, up>>
=============================================================================
