--------------------------- MODULE MCMigrations ---------------------------
EXTENDS Migrations, TLC

CONSTANTS s1, s2, s3

\* A rolling release: two servers have a migration more than the third.
MCRelease == s1 :> 2 @@ s2 :> 3 @@ s3 :> 3

=============================================================================
