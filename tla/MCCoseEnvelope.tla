--------------------------- MODULE MCCoseEnvelope ---------------------------
(***************************************************************************)
(* Envelopes put together from parts, of which at most two are not what    *)
(* the profile asks for.                                                   *)
(***************************************************************************)
EXTENDS CoseFaults

Fill(n) == [ k \in 1..n |-> 0 ]

\* Each part first as it should be.  The head of tag 18 in each of its forms,
\* other tags, heads that are reserved, cut off or of another type.
Heads ==
  << << 210 >>, << 216, 18 >>, << 217, 0, 18 >>, << 218, 0, 0, 0, 18 >>,
     << 219, 0, 0, 0, 0, 0, 0, 0, 18 >>, << 216, 19 >>, << 216, 5 >>, << 209 >>,
     << 220 >>, << 223 >>, << >>, << 0 >>, << 210, 210 >> >>

Arrays == << << 132 >>, << 152, 4 >>, << 131 >>, << 133 >>, << 159 >>, << 162 >>,
             << 145 >> >>

Headers ==
  << << 67, 161, 1, 50 >>, << 67, 161, 1, 38 >>, << 67, 161, 1, 5 >>,
     << 68, 161, 1, 56, 18 >>, << 68, 161, 1, 56, 24 >>, << 67, 161, 245, 38 >>,
     << 67, 161, 1, 245 >>, << 67, 161, 32, 38 >>, << 69, 162, 1, 38, 4, 38 >>,
     << 69, 162, 1, 38, 1, 38 >>, << 69, 162, 1, 38, 245, 38 >>, << 65, 160 >>, << 64 >>,
     << 65, 255 >>, << 66, 129, 1 >>, << 99, 97, 49, 50 >>, << 161, 1, 50 >>,
     << 68, 24, 161, 1, 50 >>, << 88, 3, 161, 1, 50 >>, << 70, 161, 1, 129, 129, 129, 0 >> >>

Unprotected == << << 160 >>, << 161, 1, 38 >>, << 128 >>, << 246 >>, << 162, 1, 0, 1, 0 >>,
                  << 161, 1, 129, 129, 0 >> >>

Payloads ==
  << << 65, 170 >>, << 64 >>, << 88, 24 >> \o Fill(24), << 88, 255 >> \o Fill(255),
     << 89, 1, 0 >> \o Fill(256), << 246 >>, << 97, 65 >>,
     << 88, 1, 170 >>, << 95, 65, 170, 255 >>, << 194, 65, 170 >>, << 97, 255 >>,
     << 66, 170 >> >>

Signatures ==
  << << 88, 64 >> \o Fill(64), << 88, 63 >> \o Fill(63), << 88, 65 >> \o Fill(65),
     << 120, 64 >> \o Fill(64), << 89, 0, 64 >> \o Fill(64), << 246 >>,
     << 88, 64 >> \o Fill(63) >>

\* Nothing after the envelope, something after it, or its last byte missing.
Ends == { << >>, << 0 >> }

Bad(n) == IF n = 1 THEN 0 ELSE 1

MCInputs ==
  { << >>, << 210 >>, << 216 >>, << 217, 0 >>, << 255 >> }
  \cup { Heads[h] \o Arrays[a] \o Headers[p] \o Unprotected[u] \o Payloads[b]
           \o Signatures[s] \o e :
         << h, a, p, u, b, s, e >> \in
           { c \in (DOMAIN Heads) \X (DOMAIN Arrays) \X (DOMAIN Headers)
                     \X (DOMAIN Unprotected) \X (DOMAIN Payloads)
                     \X (DOMAIN Signatures) \X Ends :
               Bad(c[1]) + Bad(c[2]) + Bad(c[3]) + Bad(c[4]) + Bad(c[5]) + Bad(c[6])
                 + (IF c[7] = << >> THEN 0 ELSE 1) <= 2 } }
=============================================================================
