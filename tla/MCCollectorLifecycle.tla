------------------------ MODULE MCCollectorLifecycle ------------------------
(* Instance of CollectorLifecycle with the collectors of the repository.   *)
EXTENDS CollectorLifecycle, TLC

System == INSTANCE CollectorsSystem
Server == INSTANCE CollectorsServer
Virtual == INSTANCE CollectorsVirtual

MCPrograms ==
  LET system  == System!SystemCollectors
      server  == Server!ServerCollectors
      virtual == Virtual!VirtualCollectors
  IN  system @@ server @@ virtual

\* No sub-collector, each one alone, and one of them with each of the others.
MCSelections ==
  [c \in DOMAIN MCPrograms |->
     LET parts == PartsOf(MCPrograms[c])
         pivot == CHOOSE p \in parts : TRUE
     IN  IF parts = {} THEN {{}}
         ELSE {{}} \cup {{p} : p \in parts} \cup {{pivot, p} : p \in parts}]

MCScrapes == 1..2

\* No Close of these collectors names the query; in tcp, time and
\* terminal_services it is not always reached.
MCKeptOpen ==
  {<<c, q>> : c \in {"exchange", "hyperv"}, q \in UNION
       {PartsOf(MCPrograms[d]) : d \in {"exchange", "hyperv"}}}
  \cup {<<q, q>> : q \in {"logical_disk", "memory", "msmq", "physical_disk",
                          "smbclient", "thermalzone"}}
  \cup {<<"iis", "w3wp_v8">>, <<"mssql", "databases2019">>,
        <<"nps", "accept">>, <<"nps", "accounting">>,
        <<"performancecounter", "object">>, <<"tcp", "tcp4">>,
        <<"tcp", "tcp6">>, <<"time", "ntp">>,
        <<"terminal_services", "session">>, <<"terminal_services", "broker">>}
=============================================================================
