-------------------------- MODULE MCHttpCollections --------------------------
EXTENDS HttpCollections

CONSTANTS accept, cookie, gzip, zip

TwoNames == {accept, cookie}
TwoValues == {gzip, zip}
\* The text of one value occurs in the other.
ZipInGzip == (gzip :> {gzip, zip}) @@ (zip :> {zip})
BothClasses == {"HttpHeaders", "HttpParams"}
=============================================================================
