------------------------------ MODULE MCStartUp ------------------------------
EXTENDS StartUp

CONSTANT MaxLines, MaxArguments

MCSettings == {<<"c2s", "port">>, <<"tls", "cert_path">>, <<"tls", "key_path">>,
               <<"tls", "port">>, <<"global", "port">>, <<"c2s", "cert_path">>,
               <<"global", "cert_path">>}

MCModules ==
  {[name |-> "c2s", options |-> [port |-> Value("int", "5222")]],
   [name |-> "tls", options |-> [cert_path |-> Value("string", "./server.crt"),
                                 key_path |-> Value("string", "./server.key")]]}
MCRegistrations == {<<"c2s", "main.cpp">>, <<"c2s", "ClientConnectionManager.cpp">>,
                    <<"tls", "main.cpp">>}
MCExistingPaths == {"./server.crt", "./server.key", "a.crt"}
MCNumberOf == [t \in {"5222", "7000", "70000", "-1"} |->
                 CASE t = "5222" -> 5222 [] t = "7000" -> 7000 [] t = "70000" -> 70000
                   [] OTHER -> -1]

Text(form, text) == [form |-> form, text |-> text]

Section(name) == [kind |-> "section", name |-> name]
Assign(key, form, text) == [kind |-> "assign", key |-> key, value |-> Text(form, text)]
Lines ==
  {Section("c2s"), Section("tls"), [kind |-> "ignored"],
   Assign("port", "digits", "70000"), Assign("port", "quoted", "7000"),
   Assign("cert_path", "quoted", "a.crt"), Assign("cert_path", "plain", "a.crt")}
MCFiles == UNION {[1 .. n -> Lines] : n \in 0 .. MaxLines}

Argument(dash, setting, value, itself) ==
  [help |-> FALSE, dash |-> dash, setting |-> setting, value |-> value, itself |-> itself]
Arguments ==
  {[help |-> TRUE, dash |-> TRUE, setting |-> None, value |-> None, itself |-> Text("plain", "--help")],
   Argument(TRUE, Port, Text("digits", "7000"), Text("plain", "--c2s.port=7000")),
   Argument(TRUE, Port, None, Text("plain", "--c2s.port")),
   Argument(TRUE, CertPath, None, Text("plain", "--tls.cert_path")),
   Argument(TRUE, None, None, Text("negative", "-1")),
   Argument(FALSE, None, None, Text("digits", "5222")),
   Argument(FALSE, None, None, Text("plain", "a.crt")),
   Argument(FALSE, KeyPath, Text("plain", "no.key"), Text("plain", "tls.key_path=no.key")),
   Argument(TRUE, CertPath, Text("plain", "\"a.crt\""), Text("plain", "--tls.cert_path=\"a.crt\""))}
MCCommandLines == UNION {[1 .. n -> Arguments] : n \in 0 .. MaxArguments}
=============================================================================
