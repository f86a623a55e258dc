--------------------------- MODULE MCValidateRun ---------------------------
(* ValidateRun with two hosts: a server with two spellings, and this machine *)
(* with three, of which hostAliases lists two.                               *)
EXTENDS ValidateRun

MCSpellings  == {"db.internal", "DB.Internal.", "localhost", "127.0.0.1", "127.0.0.2"}
MCNormalized == [s \in MCSpellings |-> IF s = "DB.Internal." THEN "db.internal" ELSE s]
MCLoopback   == {"localhost", "127.0.0.1", "127.0.0.2"}
MCNames      == {"localhost", "127.0.0.1"}

\* Connection strings of up to two hosts.
MaxHosts == 2
MCDSNs   == [given : {TRUE}, hosts : UNION {[1 .. n -> MCSpellings] : n \in 0 .. MaxHosts}]
NoDSN    == [given |-> FALSE, hosts |-> <<>>]
OneDSN   == [given |-> TRUE, hosts |-> <<"db.internal">>]

MCCalls ==
  [target : MCDSNs \union {NoDSN}, ephemeral : {NoDSN, OneDSN},
   calibrate : BOOLEAN, maxRows : BOOLEAN, iKnow : BOOLEAN, warnFail : BOOLEAN]
    \union
  [target : {NoDSN}, ephemeral : MCDSNs,
   calibrate : BOOLEAN, maxRows : BOOLEAN, iKnow : {FALSE}, warnFail : BOOLEAN]
=============================================================================
