---------------------------- MODULE MCCredentials ----------------------------
(* Two credentials of different rank, and workers that go on calling.        *)
EXTENDS Credentials, TLC

MCRank == "c1" :> 2 @@ "c2" :> 1
FairCredentialsSpec == CredentialsSpec /\ CredentialsFairness
=============================================================================
