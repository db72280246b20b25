---------------------------- MODULE MCChatServer ----------------------------
(***************************************************************************)
(* Small instances of ChatServer for TLC.                                  *)
(***************************************************************************)
EXTENDS ChatServer, TLC

CONSTANTS s1, s2, k1, k2, n1, n2, host

\* Two clients with a key each.
TwoKeys == (s1 :> k1) @@ (s2 :> k2)

\* Two clients of the same user.
OneKey == [s \in Sess |-> k1]

NoBans == {}
OneBan == {n2}

\* register_local_identity: the host's own key, which client s1 has as well.
HostIdentity == [n \in Nicks |-> IF n = LocalNick THEN k1 ELSE None]
KnownIdentities == [n \in Nicks |-> k1]

\* Commands that disconnect nobody, those that do, and the administrator's.
Passive == {"create", "move", "unban"}
Moderation == {"kick", "ban"}
AdminCmds == {"create", "kick", "ban", "unban"}

\* Sessions are interchangeable when they have the same key; nicknames are
\* when none is the local user's.  Used for invariants and action properties.
SessionSymmetry == Permutations(Sess) \cup Permutations(Nicks)
=============================================================================
