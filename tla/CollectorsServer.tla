-------------------------- MODULE CollectorsServer --------------------------
(***************************************************************************)
(* The collectors of server roles and services, as sequences of steps; see *)
(* CollectorsSystem for the conventions.                                   *)
(***************************************************************************)
EXTENDS CollectorSteps

ad_Build == Return(DescsThenOpen("ad"))
ad_Collect == Return(ReadCheckFirst("ad"))
ad == Sequential(ad_Build, ad_Collect, <<CloseQuery("ad")>>)

adcs_Build == Return(DescsThenOpen("adcs"))
adcs_Collect == Return(ReadEach("adcs"))
adcs == Sequential(adcs_Build, adcs_Collect, <<CloseQuery("adcs")>>)

adfs_Build == Return(DescsThenOpen("adfs"))
adfs_Collect == Return(ReadCheckFirst("adfs"))
adfs == Sequential(adfs_Build, adfs_Collect, <<CloseQuery("adfs")>>)

\* The descriptors of all three sources are made first, whatever is enabled.
dfsr_Build ==
  Return(<<MakeAll({"connection", "folder", "volume"})>>)
    \o ReturnIf("connection", <<Open("connection")>>)
    \o ReturnIf("folder", <<Open("folder")>>)
    \o ReturnIf("volume", <<Open("volume")>>)
collectPDHConnection == ReadEach("connection")
collectPDHFolder == ReadEach("folder")
collectPDHVolume == ReadEach("volume")
dfsr_Collect ==
  JoinIf("connection", collectPDHConnection)
    \o JoinIf("folder", collectPDHFolder)
    \o JoinIf("volume", collectPDHVolume)
dfsr_Close == <<CloseIf("connection", "connection"), CloseIf("folder", "folder"),
                CloseIf("volume", "volume")>>
dfsr == Sequential(dfsr_Build, dfsr_Collect, dfsr_Close)

dhcp_Build ==
  ReturnIf("scope_metrics", <<Make("scope_metrics")>>)
    \o ReturnIf("server_metrics", DescsThenOpen("server_metrics"))
collectServerMetrics == ReadCheckFirst("server_metrics")
collectScopeMetrics == <<Sys, Emit("scope_metrics")>>
dhcp_Collect ==
  JoinIf("server_metrics", collectServerMetrics)
    \o JoinIf("scope_metrics", collectScopeMetrics)
dhcp_Close == <<CloseIf("server_metrics", "server_metrics")>>
dhcp == Sequential(dhcp_Build, dhcp_Collect, dhcp_Close)

\* The descriptor of the WMI statistics is made with those of the counters.
buildMetricsCollector == <<MakeAll({"metrics", "wmi_stats"}), Open("metrics")>>
buildErrorStatsCollector == Session
dns_Build == ReturnIf("metrics", buildMetricsCollector)
               \o ReturnIf("wmi_stats", buildErrorStatsCollector)
collectMetrics == ReadCheckFirst("metrics")
collectErrorStats == <<Query, Emit("wmi_stats")>>
dns_Collect == JoinIf("metrics", collectMetrics)
                 \o JoinIf("wmi_stats", collectErrorStats)
dns == Sequential(dns_Build, dns_Collect, <<CloseQuery("metrics")>>)

fsrmquota_Build == Return(Session \o <<Make("fsrmquota"), Call>>)
fsrmquota_Collect == Return(<<Query, Emit("fsrmquota")>>)
fsrmquota == Sequential(fsrmquota_Build, fsrmquota_Collect, <<>>)

\* The four sub-collectors of iis are always on.  They are named as parts so that
\* one or two of them are looked at at a time.  v8: IIS 8 or later.
buildWebService == OpenThenDescs("web_service")
buildAppPoolWAS == OpenThenDescs("app_pool")
buildW3SVCW3WP(v8) ==
  <<Open("w3wp")>> \o (IF v8 THEN <<Open("w3wp_v8")>> ELSE <<>>)
    \o <<MakeAll({"w3wp", "w3wp_v8"})>>
buildWebServiceCache == OpenThenDescs("cache")
iis_Build(v8) ==
  Return(<<Make("info")>>)
    \o JoinIf("web_service", buildWebService)
    \o JoinIf("app_pool", buildAppPoolWAS)
    \o JoinIf("w3wp", buildW3SVCW3WP(v8))
    \o JoinIf("cache", buildWebServiceCache)
deduplicateIISNames(q) == <<Dedup(q)>>
collectWebService ==
  <<Read("web_service")>> \o deduplicateIISNames("web_service")
    \o <<Each("web_service", "web_service")>>
collectAppPoolWAS ==
  <<Read("app_pool")>> \o deduplicateIISNames("app_pool")
    \o <<Each("app_pool", "app_pool")>>
collectW3SVCW3WPv7 ==
  <<Read("w3wp")>> \o deduplicateIISNames("w3wp") \o <<Each("w3wp", "w3wp")>>
collectW3SVCW3WPv8 ==
  <<Read("w3wp_v8")>> \o deduplicateIISNames("w3wp_v8")
    \o <<Each("w3wp_v8", "w3wp_v8")>>
collectW3SVCW3WP(v8) ==
  collectW3SVCW3WPv7 \o (IF v8 THEN collectW3SVCW3WPv8 ELSE <<>>)
collectWebServiceCache == ReadEach("cache")
iis_Collect(v8) ==
  Return(<<Emit("info")>>)
    \o JoinIf("web_service", collectWebService)
    \o JoinIf("app_pool", collectAppPoolWAS)
    \o JoinIf("w3wp", collectW3SVCW3WP(v8))
    \o JoinIf("cache", collectWebServiceCache)
iis_Close == <<CloseQuery("web_service"), CloseQuery("app_pool"),
               CloseQuery("w3wp"), CloseQuery("cache")>>
iis(v8) == Sequential(iis_Build(v8), iis_Collect(v8), iis_Close)

msmq_Build == Return(DescsThenOpen("msmq"))
msmq_Collect == Return(ReadEach("msmq"))
msmq == Sequential(msmq_Build, msmq_Collect, <<>>)

nps_Build == Return(<<MakeAll({"accept", "accounting"})>>)
               \o Join(<<Open("accept")>>) \o Join(<<Open("accounting")>>)
collectAccept == ReadFirst("accept")
collectAccounting == ReadFirst("accounting")
nps_Collect == Join(collectAccept) \o Join(collectAccounting)
nps == Sequential(nps_Build, nps_Collect, <<>>)

smb_Build == Return(DescsThenOpen("smb"))
smb_Collect == Return(ReadEach("smb"))
smb == Sequential(smb_Build, smb_Collect, <<CloseQuery("smb")>>)

smbclient_Build == Return(DescsThenOpen("smbclient"))
smbclient_Collect == Return(ReadEachNamed("smbclient"))
smbclient == Sequential(smbclient_Build, smbclient_Collect, <<>>)

smtp_Build == Return(DescsThenOpen("smtp"))
smtp_Collect == Return(ReadEach("smtp"))
smtp == Sequential(smtp_Build, smtp_Collect, <<CloseQuery("smtp")>>)

\* exchange: a collect function is registered once its build function has
\* returned without error.  Close calls methods of pdh collectors that were
\* bound before Build made them.
buildActiveSync == OpenThenDescs("ActiveSync")
collectActiveSync == ReadEach("ActiveSync")
buildADAccessProcesses == OpenThenDescs("ADAccessProcesses")
collectADAccessProcesses == ReadEach("ADAccessProcesses")
buildAutoDiscover == OpenThenDescs("Autodiscover")
collectAutoDiscover == ReadEach("Autodiscover")
buildAvailabilityService == OpenThenDescs("AvailabilityService")
collectAvailabilityService == ReadEach("AvailabilityService")
buildHTTPProxy == OpenThenDescs("HttpProxy")
collectHTTPProxy == ReadEach("HttpProxy")
buildMapiHttpEmsmdb == OpenThenDescs("MapiHttpEmsmdb")
collectMapiHttpEmsmdb == ReadEach("MapiHttpEmsmdb")
buildOWA == OpenThenDescs("OutlookWebAccess")
collectOWA == ReadEach("OutlookWebAccess")
buildRpcClientAccess == OpenThenDescs("RpcClientAccess")
collectRpcClientAccess == ReadEach("RpcClientAccess")
buildTransportQueues == OpenThenDescs("TransportQueues")
collectTransportQueues == ReadEach("TransportQueues")
buildWorkloadManagementWorkloads == OpenThenDescs("WorkloadManagement")
collectWorkloadManagementWorkloads == ReadEach("WorkloadManagement")

exchange_Build ==
  JoinIf("ActiveSync", buildActiveSync)
    \o JoinIf("ADAccessProcesses", buildADAccessProcesses)
    \o JoinIf("Autodiscover", buildAutoDiscover)
    \o JoinIf("AvailabilityService", buildAvailabilityService)
    \o JoinIf("HttpProxy", buildHTTPProxy)
    \o JoinIf("MapiHttpEmsmdb", buildMapiHttpEmsmdb)
    \o JoinIf("OutlookWebAccess", buildOWA)
    \o JoinIf("RpcClientAccess", buildRpcClientAccess)
    \o JoinIf("TransportQueues", buildTransportQueues)
    \o JoinIf("WorkloadManagement", buildWorkloadManagementWorkloads)
exchange_Collect ==
  <<JoinIf("ActiveSync", collectActiveSync),
    JoinIf("ADAccessProcesses", collectADAccessProcesses),
    JoinIf("Autodiscover", collectAutoDiscover),
    JoinIf("AvailabilityService", collectAvailabilityService),
    JoinIf("HttpProxy", collectHTTPProxy),
    JoinIf("MapiHttpEmsmdb", collectMapiHttpEmsmdb),
    JoinIf("OutlookWebAccess", collectOWA),
    JoinIf("RpcClientAccess", collectRpcClientAccess),
    JoinIf("TransportQueues", collectTransportQueues),
    JoinIf("WorkloadManagement", collectWorkloadManagementWorkloads)>>
exchange == [Parallel(exchange_Build, exchange_Collect, <<>>)
               EXCEPT !.ifBuilt = TRUE]

ServerCollectors ==
  [ad |-> ad, adcs |-> adcs, adfs |-> adfs, dfsr |-> dfsr, dhcp |-> dhcp,
   dns |-> dns, exchange |-> exchange, fsrmquota |-> fsrmquota,
   iis |-> iis(TRUE), iis_v7 |-> iis(FALSE), msmq |-> msmq, nps |-> nps,
   smb |-> smb, smbclient |-> smbclient, smtp |-> smtp]
=============================================================================
