----------------------------- MODULE MCHostKey -----------------------------
(* HostKey for TLC: two servers of one host, two keys of one type and one of *)
(* another.                                                                  *)
EXTENDS HostKey

MCServer == [host : {"h1"}, port : {22, 2222}]

MCKey == {[type |-> "rsa", blob |-> 1], [type |-> "rsa", blob |-> 2],
          [type |-> "ed25519", blob |-> 1]}

\* an entry for one port of h1, written by another program
MCKnown == {[host |-> "h1", port |-> 2222, key |-> [type |-> "rsa", blob |-> 1]]}

MCEnvironment ==
  [verify : {"unset"}, policy : {"unset", "REJECT", "TOFU_SESSION"}, known_hosts : {"unset"}]
============================================================================
