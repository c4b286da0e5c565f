------------------------------ MODULE SignInMC ------------------------------
\* Small instances of SignIn: two passphrases, a curve of order 7.
EXTENDS SignIn

MCTexts == {"", "0", "80", "6000", "06000", "7000", "99999999999", "localhost",
            "elsewhere", "pass", "word", "server.crt", "server.key", "other.crt", "empty.crt"}
MCKeys == {"grpc_port", "cert_port", "grpc_host", "passphrase", "cert_file", "key_file"}

MCPortNumber == [t \in MCTexts |->
    CASE t = "0" -> 0 [] t = "80" -> 80 [] t = "6000" -> 6000 [] t = "06000" -> 6000
      [] t = "7000" -> 7000 [] t = "99999999999" -> -2 [] OTHER -> -1]
MCWritten == [t \in MCTexts |->
    CASE t \in {"0", "80", "6000", "7000"} -> t [] t = "06000" -> "6000" [] OTHER -> ""]

\* The third certificate is empty.  Names that are no file read as empty.
MCCertificate == [t \in MCTexts |->
    IF t \in {"server.crt", "server.key", "other.crt"} THEN t ELSE ""]

\* The first digest of "word" leads to infinity.
MCPassphrases == MCTexts \ {""}
MCDigests == [p \in MCPassphrases |-> IF p = "word" THEN <<14, 4>> ELSE <<9>>]

Line(k, v) == [kind |-> "setting", key |-> k, value |-> v]
Skipped    == [kind |-> "comment"]
Unparsable == [kind |-> "unparsable"]
Text(lines) == [readable |-> TRUE, lines |-> lines]
NoFile == [readable |-> FALSE, lines |-> <<>>]

Args(ports, hosts, passphrases) ==
    {[o \in {"grpc_port", "cert_port", "grpc_host", "passphrase"} |->
        CASE o = "grpc_port" -> p [] o = "grpc_host" -> h [] o = "passphrase" -> w
          [] OTHER -> IF p = "7000" THEN "7000" ELSE ""] :
        p \in ports, h \in hosts, w \in passphrases}

MCServerFiles == {
    NoFile,
    Text(<<Line("grpc_port", "6000"), Line("passphrase", "pass")>>),
    Text(<<Line("passphrase", "word"), Skipped, Line("passphrase", "pass"),
           Line("grpc_port", "06000"), Unparsable, Line("cert_file", "other.crt")>>),
    Text(<<Line("grpc_port", "0")>>)}

MCDaemonFiles == {
    NoFile,
    Text(<<Line("grpc_port", "6000"), Line("grpc_host", "localhost"),
           Line("passphrase", "pass"), Line("cert_file", "server.crt")>>),
    Text(<<Line("passphrase", "pass"), Line("grpc_port", "80"), Unparsable,
           Line("grpc_port", "7000"), Line("passphrase", "word"), Skipped,
           Line("cert_file", "server.crt"), Line("grpc_host", "localhost")>>),
    Text(<<Line("grpc_host", "localhost"), Line("cert_file", "other.crt")>>),
    Text(<<Line("grpc_host", "localhost"), Line("cert_file", "empty.crt"),
           Line("grpc_port", "0"), Line("cert_port", "80")>>)}

MCServerSettings == [args : Args({"", "06000", "7000", "80"}, {""}, {"", "word"}),
                     file : MCServerFiles]
MCDaemonSettings == [args : Args({"", "6000", "7000", "99999999999"},
                                 {"", "elsewhere"}, {"", "word"}),
                     file : MCDaemonFiles]
=============================================================================
