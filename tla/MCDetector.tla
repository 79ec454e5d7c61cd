----------------------------- MODULE MCDetector -----------------------------
EXTENDS Detector, TLC

CONSTANTS clean, second

\* One OS without by-path devices; two OSes, a by-path device in the second.
MCMountpoints ==
    clean :> << <<FALSE>> >> @@ second :> << <<FALSE>>, <<FALSE, TRUE>> >>

\* All checks; a type that is not known, and then one check.
MCRequests == {<<>>, <<"unknown", "fstab">>}

=============================================================================
