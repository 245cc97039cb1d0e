---------------------------- MODULE MCChatRequest ----------------------------
(* Instances of ChatRequest for TLC.                                       *)
EXTENDS ChatRequest, TLC

\* Requests are interchangeable, and so are sessions.
MCSymmetry == Permutations(Requests) \cup Permutations(Sessions)

\* What chat knew of a request is read by nobody once its outcome is settled,
\* and of older records only their number: the properties about them have been
\* checked by then.
Deciding(S) == {r \in S : pc[r] \notin {"completing", "returning", "done"}}
Open(f) == [r \in Requests |-> IF pc[r] = "done" THEN "none" ELSE f[r]]
MCView == <<server, pc, session, Open(lease), Open(persisted),
            active, sequence, entries, overall, sessions,
            {<<i, added[i]>> : i \in Newest(RecentLimit)}, Deciding(gone),
            {r \in known : pc[r] # "done"}, Deciding(proxyFailed),
            {r \in proxyAborted : pc[r] # "done"}, Deciding(blamed),
            Deciding(broken), Deciding(whole),
            [r \in Requests |-> IF r \in Deciding(Requests) THEN status[r]
                                ELSE "none"]>>

=============================================================================
