-------------------------- MODULE MCSessionSegments --------------------------
(* A new session, two continues, one client polling, exits. *)
EXTENDS SessionSegments
MCRoundFingerprint == <<>>
=============================================================================
