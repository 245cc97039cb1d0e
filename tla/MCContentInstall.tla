-------------------------- MODULE MCContentInstall --------------------------
(* Instances of ContentInstall for TLC.                                    *)
EXTENDS ContentInstall, TLC

CONSTANTS PlainFile, MemberFile, OneArchive

Ask(sel, from, ack, force, import) ==
    [sel |-> sel, mirror |-> from, ack |-> ack, force |-> force,
     import |-> import]

\* A plain artifact and a member of an archive.
PlainAndMember == (PlainFile :> None) @@ (MemberFile :> OneArchive)

MixedRequests ==
    {Ask(<<PlainFile, MemberFile>>, "move", TRUE, FALSE, FALSE),
     Ask(<<MemberFile>>, "off", FALSE, TRUE, FALSE),
     Ask(<<MemberFile, PlainFile>>, "copy", FALSE, FALSE, FALSE),
     Ask(<<PlainFile>>, "off", TRUE, FALSE, TRUE),
     Ask(<<>>, "off", FALSE, FALSE, FALSE)}

MCSymmetry == Permutations(Installers)

\* What a process that has returned had in memory no longer matters.
MCView ==
    LET live(f, i, default) == IF pc[i] = "idle" THEN default ELSE f[i]
    IN  <<content, staging, user, containers, lock, pc, outcome, cleaner, bounds,
          [i \in Installers |-> IF outcome[i] = "ok" \/ pc[i] # "idle"
                                THEN <<request[i], touched[i]>> ELSE None],
          [i \in Installers |-> <<live(todo, i, <<>>), live(store, i, {}),
            live(fresh, i, FALSE), live(found, i, {}), live(roots, i, {})>>]>>

=============================================================================
