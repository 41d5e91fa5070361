-------------------------------- MODULE X509 --------------------------------
(***************************************************************************)
(* Certificates (crypto/x509.rs): what parsing one keeps, and which hosts  *)
(* it is for.                                                              *)
(***************************************************************************)
EXTENDS Integers, SequencesExt

\* What parsing a certificate keeps: whose it is, who issued it, the key in
\* it, the key that signed it, the CA flag and the names it covers.
Cert(subject, issuer, key, by, ca, names) ==
    [subject |-> subject, issuer |-> issuer, key |-> key, by |-> by, ca |-> ca,
     names |-> names]

verify_signed_by(child, key) == child.by = key

\* A name is a sequence of labels.  A wildcard stands for exactly one label,
\* the leftmost.
name_matches(pattern, host) ==
    IF "*" \notin Range(pattern) THEN pattern = host
    ELSE /\ Head(pattern) = "*" /\ "*" \notin Range(Tail(pattern))
         /\ Len(host) > 1 /\ Tail(pattern) = Tail(host)

hostname_matches(cert, host) == \E pattern \in cert.names : name_matches(pattern, host)
=============================================================================
