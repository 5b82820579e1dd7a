---------------------------- MODULE MCEchoServer ----------------------------
(* Small instances of EchoServer.                                          *)
EXTENDS EchoServer

CONSTANTS c1, c2, c3, null, unset

MCClients   == {c1, c2}
MCOneClient == {c1}
MCThreeClients == {c1, c2, c3}
MCNull      == null
MCUnset     == unset
MCProcs     == {"acceptTcpHandler", "onReadPrepared", "onWritePrepared"}
MCData      == Clients \cup {NULL}
MCNoFlags   == {}
=============================================================================
