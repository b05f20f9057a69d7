----------------------------- MODULE MCProactor -----------------------------
(* Two descriptors and two workers, so that two connections are handled at   *)
(* once; two connections, which may also have one descriptor after each      *)
(* other; a queue that turns a request away while another one waits.         *)
EXTENDS Proactor
CONSTANTS f1, f2, w1, w2
MCFd == {f1, f2}
MCWorker == {w1, w2}
=============================================================================
