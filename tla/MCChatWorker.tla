---------------------------- MODULE MCChatWorker ----------------------------
(* Values for the constants of ChatWorker: t1, t2 and t3 are texts, a1 is an   *)
(* attachment without a text, n1 is /new.                                     *)
EXTENDS ChatWorker

CONSTANTS t1, t2, t3, a1, n1

Kinds(M) == [m \in M |-> CASE m = n1 -> "new"
                           [] m = a1         -> "attachment"
                           [] OTHER          -> "text"]

Fewer       == {t1, a1, n1}
FewerKind   == Kinds(Fewer)
Texts       == {t1, t2, t3, n1}
TextsKind   == Kinds(Texts)
WithFile     == {t1, a1}
WithFileKind == Kinds(WithFile)
=============================================================================
