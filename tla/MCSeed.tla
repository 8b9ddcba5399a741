------------------------------- MODULE MCSeed --------------------------------
EXTENDS Seed, TLC

CONSTANTS s1, s2, s3

\* The password is changed between the starts.
MCPassword == s1 :> "old" @@ s2 :> "new" @@ s3 :> "new"
=============================================================================
