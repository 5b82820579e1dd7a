------------------------------ MODULE MCDaemon ------------------------------
(* Small instances of Daemon.                                              *)
EXTENDS Daemon

MCAllDeaths  == Deaths
MCErrorExit  == {"exitError"}
MCSignals    == {"errorSignal", "otherSignal"}
MCCrash      == {"errorSignal"}
MCNone       == {}
=============================================================================
