-------------------------- MODULE CollectorsVirtual -------------------------
(***************************************************************************)
(* The collectors of virtual machines, clusters, remote desktops and SQL   *)
(* Server, as sequences of steps; see CollectorsSystem for the conventions.*)
(***************************************************************************)
EXTENDS CollectorSteps

container_Build == Return(<<MakeAll({"available", "container", "network"})>>)
collectContainer ==
  <<Fail({"logged", "error"}), Fail({"logged", "error"}), Emit("container")>>
\* One endpoint.  Without the list of endpoints the function returns; that the
\* statistics cannot be read, or that the container is unknown, is logged.
collectNetworkMetrics ==
  Return(<<Sys, Sys>>) \o Log(<<Sys, Sys, Emit("network")>>)
\* One container.  That it no longer exists is logged.
container_Collect ==
  Return(<<Sys, Emit("available")>>) \o Join(collectContainer)
    \o collectNetworkMetrics
container == Sequential(container_Build, container_Collect, <<>>)

\* hyperv: as in exchange, a collect function is registered once its build
\* function has returned without error, and Close closes nothing.  Two of them need
\* a newer Windows.
buildDataStore == OpenThenDescs("datastore")
collectDataStore == ReadEach("datastore")
buildDynamicMemoryBalancer == OpenThenDescs("dynamic_memory_balancer")
collectDynamicMemoryBalancer == ReadEach("dynamic_memory_balancer")
buildDynamicMemoryVM == OpenThenDescs("dynamic_memory_vm")
collectDynamicMemoryVM == ReadEach("dynamic_memory_vm")
buildHypervisorLogicalProcessor == OpenThenDescs("hypervisor_logical_processor")
collectHypervisorLogicalProcessor == ReadEachNamed("hypervisor_logical_processor")
buildHypervisorRootPartition == OpenThenDescs("hypervisor_root_partition")
collectHypervisorRootPartition == ReadFirst("hypervisor_root_partition")
buildHypervisorRootVirtualProcessor == OpenThenDescs("hypervisor_root_virtual_processor")
collectHypervisorRootVirtualProcessor == ReadEachNamed("hypervisor_root_virtual_processor")
buildHypervisorVirtualProcessor == OpenThenDescs("hypervisor_virtual_processor")
collectHypervisorVirtualProcessor == ReadEachNamed("hypervisor_virtual_processor")
buildLegacyNetworkAdapter == OpenThenDescs("legacy_network_adapter")
collectLegacyNetworkAdapter == ReadEach("legacy_network_adapter")
buildVirtualMachineHealthSummary == OpenThenDescs("virtual_machine_health_summary")
collectVirtualMachineHealthSummary == ReadFirst("virtual_machine_health_summary")
buildVirtualMachineVidPartition == OpenThenDescs("virtual_machine_vid_partition")
collectVirtualMachineVidPartition == ReadEach("virtual_machine_vid_partition")
buildVirtualNetworkAdapter == OpenThenDescs("virtual_network_adapter")
collectVirtualNetworkAdapter == ReadEach("virtual_network_adapter")
buildVirtualNetworkAdapterDropReasons == OpenThenDescs("virtual_network_adapter_drop_reasons")
collectVirtualNetworkAdapterDropReasons == ReadEach("virtual_network_adapter_drop_reasons")
buildVirtualSMB == OpenThenDescs("virtual_smb")
collectVirtualSMB == ReadEach("virtual_smb")
buildVirtualStorageDevice == OpenThenDescs("virtual_storage_device")
collectVirtualStorageDevice == ReadEach("virtual_storage_device")
buildVirtualSwitch == OpenThenDescs("virtual_switch")
collectVirtualSwitch == ReadEach("virtual_switch")

hyperv_Build ==
  JoinIf("datastore", <<MinBuild>> \o buildDataStore)
    \o JoinIf("dynamic_memory_balancer", buildDynamicMemoryBalancer)
    \o JoinIf("dynamic_memory_vm", buildDynamicMemoryVM)
    \o JoinIf("hypervisor_logical_processor", buildHypervisorLogicalProcessor)
    \o JoinIf("hypervisor_root_partition", buildHypervisorRootPartition)
    \o JoinIf("hypervisor_root_virtual_processor", buildHypervisorRootVirtualProcessor)
    \o JoinIf("hypervisor_virtual_processor", buildHypervisorVirtualProcessor)
    \o JoinIf("legacy_network_adapter", buildLegacyNetworkAdapter)
    \o JoinIf("virtual_machine_health_summary", buildVirtualMachineHealthSummary)
    \o JoinIf("virtual_machine_vid_partition", buildVirtualMachineVidPartition)
    \o JoinIf("virtual_network_adapter", buildVirtualNetworkAdapter)
    \o JoinIf("virtual_network_adapter_drop_reasons", buildVirtualNetworkAdapterDropReasons)
    \o JoinIf("virtual_smb", <<MinBuild>> \o buildVirtualSMB)
    \o JoinIf("virtual_storage_device", buildVirtualStorageDevice)
    \o JoinIf("virtual_switch", buildVirtualSwitch)
hyperv_Collect ==
  <<JoinIf("datastore", collectDataStore),
    JoinIf("dynamic_memory_balancer", collectDynamicMemoryBalancer),
    JoinIf("dynamic_memory_vm", collectDynamicMemoryVM),
    JoinIf("hypervisor_logical_processor", collectHypervisorLogicalProcessor),
    JoinIf("hypervisor_root_partition", collectHypervisorRootPartition),
    JoinIf("hypervisor_root_virtual_processor", collectHypervisorRootVirtualProcessor),
    JoinIf("hypervisor_virtual_processor", collectHypervisorVirtualProcessor),
    JoinIf("legacy_network_adapter", collectLegacyNetworkAdapter),
    JoinIf("virtual_machine_health_summary", collectVirtualMachineHealthSummary),
    JoinIf("virtual_machine_vid_partition", collectVirtualMachineVidPartition),
    JoinIf("virtual_network_adapter", collectVirtualNetworkAdapter),
    JoinIf("virtual_network_adapter_drop_reasons", collectVirtualNetworkAdapterDropReasons),
    JoinIf("virtual_smb", collectVirtualSMB),
    JoinIf("virtual_storage_device", collectVirtualStorageDevice),
    JoinIf("virtual_switch", collectVirtualSwitch)>>
hyperv == [Parallel(hyperv_Build, hyperv_Collect, <<>>) EXCEPT !.ifBuilt = TRUE]

\* mscluster: each build function makes its descriptors, then tries its query.
buildCluster == <<Make("cluster"), Call>>
collectCluster == <<Query, Emit("cluster")>>
buildNetwork == <<Make("network"), Call>>
collectNetwork == <<Query, Emit("network")>>
buildNode == <<Make("node"), Call>>
collectNode == <<Query, Emit("node")>>
buildResource == <<Make("resource"), Call>>
collectResource == <<Query, Emit("resource")>>
buildResourceGroup == <<Make("resourcegroup"), Call>>
collectResourceGroup == <<Query, Emit("resourcegroup")>>

mscluster_Build ==
  Return(Session)
    \o JoinIf("cluster", buildCluster)
    \o JoinIf("network", buildNetwork)
    \o JoinIf("node", buildNode)
    \o JoinIf("resource", buildResource)
    \o JoinIf("resourcegroup", buildResourceGroup)
\* The owner of a resource is looked up among the nodes that were found.
mscluster_Collect ==
  <<JoinIf("cluster", collectCluster),
    JoinIf("network", collectNetwork),
    JoinIf("node", collectNode),
    JoinIf("resource", collectResource),
    JoinIf("resourcegroup", collectResourceGroup)>>
mscluster == [Parallel(mscluster_Build, mscluster_Collect, <<>>)
                EXCEPT !.after = <<0, 0, 0, 3, 3>>]

\* mssql, with one SQL Server 2019 instance.  A failed pdh.NewCollector does not
\* keep a build function from making the descriptors.
OpenAndDescs(p) == JoinIf(p, <<Open(p)>>) \o JoinIf(p, <<Make(p)>>)
getMSSQLInstances == <<Call, Make("instances")>>
mssql_collect(p, collectFn) ==
  <<Block(p, "return", <<Have("instances")>>), Block(p, "nodata", collectFn)>>
    \o JoinIf(p, <<Emit("scrape")>>)
buildAccessMethods == OpenAndDescs("accessmethods")
collectAccessMethodsInstance == ReadFirst("accessmethods")
collectAccessMethods == mssql_collect("accessmethods", collectAccessMethodsInstance)
buildAvailabilityReplica == OpenAndDescs("availreplica")
collectAvailabilityReplicaInstance == ReadEach("availreplica")
collectAvailabilityReplica == mssql_collect("availreplica", collectAvailabilityReplicaInstance)
buildBufferManager == OpenAndDescs("bufman")
collectBufferManagerInstance == ReadEach("bufman")
collectBufferManager == mssql_collect("bufman", collectBufferManagerInstance)
buildDatabases ==
  OpenAndDescs("databases") \o JoinIf("databases", <<Open("databases2019")>>)
    \o JoinIf("databases", <<Make("databases2019")>>)
collectDatabasesInstance == ReadEach("databases")
collectDatabasesInstance2019 == ReadEach("databases2019")
collectDatabases == mssql_collect("databases", collectDatabasesInstance)
  \o <<Block("databases", "nodata", collectDatabasesInstance2019)>>
buildDatabaseReplica == OpenAndDescs("dbreplica")
collectDatabaseReplicaInstance == ReadEach("dbreplica")
collectDatabaseReplica == mssql_collect("dbreplica", collectDatabaseReplicaInstance)
buildGeneralStatistics == OpenAndDescs("genstats")
collectGeneralStatisticsInstance == ReadFirst("genstats")
collectGeneralStatistics == mssql_collect("genstats", collectGeneralStatisticsInstance)
buildInstance == JoinIf("info", <<Make("info")>>)
collectInstance == <<Block("info", "return", <<Have("instances"), Emit("info")>>)>>
buildLocks == OpenAndDescs("locks")
collectLocksInstance == ReadEach("locks")
collectLocks == mssql_collect("locks", collectLocksInstance)
buildMemoryManager == OpenAndDescs("memmgr")
collectMemoryManagerInstance == ReadFirst("memmgr")
collectMemoryManager == mssql_collect("memmgr", collectMemoryManagerInstance)
buildSQLErrors == OpenAndDescs("sqlerrors")
collectSQLErrorsInstance == ReadEach("sqlerrors")
collectSQLErrors == mssql_collect("sqlerrors", collectSQLErrorsInstance)
buildSQLStats == OpenAndDescs("sqlstats")
collectSQLStatsInstance == ReadFirst("sqlstats")
collectSQLStats == mssql_collect("sqlstats", collectSQLStatsInstance)
buildTransactions == OpenAndDescs("transactions")
collectTransactionsInstance == ReadFirst("transactions")
collectTransactions == mssql_collect("transactions", collectTransactionsInstance)
buildWaitStats == OpenAndDescs("waitstats")
collectWaitStatsInstance == ReadEach("waitstats")
collectWaitStats == mssql_collect("waitstats", collectWaitStatsInstance)

mssql_Build ==
  Return(getMSSQLInstances)
    \o buildAccessMethods
    \o buildAvailabilityReplica
    \o buildBufferManager
    \o buildDatabases
    \o buildDatabaseReplica
    \o buildGeneralStatistics
    \o buildInstance
    \o buildLocks
    \o buildMemoryManager
    \o buildSQLErrors
    \o buildSQLStats
    \o buildTransactions
    \o buildWaitStats
    \o Return(<<Make("scrape")>>)
mssql_Collect ==
  <<collectAccessMethods, collectAvailabilityReplica,
    collectBufferManager, collectDatabases,
    collectDatabaseReplica, collectGeneralStatistics,
    collectInstance, collectLocks,
    collectMemoryManager, collectSQLErrors,
    collectSQLStats, collectTransactions,
    collectWaitStats>>
mssql_Close ==
  <<CloseIf("accessmethods", "accessmethods"), CloseIf("availreplica", "availreplica"),
    CloseIf("bufman", "bufman"), CloseIf("databases", "databases"),
    CloseIf("dbreplica", "dbreplica"), CloseIf("genstats", "genstats"),
    CloseIf("locks", "locks"), CloseIf("memmgr", "memmgr"),
    CloseIf("sqlerrors", "sqlerrors"), CloseIf("sqlstats", "sqlstats"),
    CloseIf("transactions", "transactions"), CloseIf("waitstats", "waitstats")>>
mssql == Parallel(mssql_Build, mssql_Collect, mssql_Close)

buildClrExceptions == <<Make("clrexceptions")>>
collectClrExceptions == <<Query, Emit("clrexceptions")>>
buildClrInterop == <<Make("clrinterop")>>
collectClrInterop == <<Query, Emit("clrinterop")>>
buildClrJIT == <<Make("clrjit")>>
collectClrJIT == <<Query, Emit("clrjit")>>
buildClrLoading == <<Make("clrloading")>>
collectClrLoading == <<Query, Emit("clrloading")>>
buildClrLocksAndThreads == <<Make("clrlocksandthreads")>>
collectClrLocksAndThreads == <<Query, Emit("clrlocksandthreads")>>
buildClrMemory == <<Make("clrmemory")>>
collectClrMemory == <<Query, Emit("clrmemory")>>
buildClrRemoting == <<Make("clrremoting")>>
collectClrRemoting == <<Query, Emit("clrremoting")>>
buildClrSecurity == <<Make("clrsecurity")>>
collectClrSecurity == <<Query, Emit("clrsecurity")>>

netframework_Build ==
  Return(Session)
    \o JoinIf("clrexceptions", buildClrExceptions)
    \o JoinIf("clrinterop", buildClrInterop)
    \o JoinIf("clrjit", buildClrJIT)
    \o JoinIf("clrloading", buildClrLoading)
    \o JoinIf("clrlocksandthreads", buildClrLocksAndThreads)
    \o JoinIf("clrmemory", buildClrMemory)
    \o JoinIf("clrremoting", buildClrRemoting)
    \o JoinIf("clrsecurity", buildClrSecurity)
netframework_Collect ==
  <<JoinIf("clrexceptions", collectClrExceptions),
    JoinIf("clrinterop", collectClrInterop),
    JoinIf("clrjit", collectClrJIT),
    JoinIf("clrloading", collectClrLoading),
    JoinIf("clrlocksandthreads", collectClrLocksAndThreads),
    JoinIf("clrmemory", collectClrMemory),
    JoinIf("clrremoting", collectClrRemoting),
    JoinIf("clrsecurity", collectClrSecurity)>>
netframework == Parallel(netframework_Build, netframework_Collect, <<>>)

remote_fx_Build == Return(<<MakeAll({"network", "graphics"})>>)
                     \o Join(<<Open("network")>>) \o Join(<<Open("graphics")>>)
collectRemoteFXNetworkCount == ReadEach("network")
collectRemoteFXGraphicsCounters == ReadEach("graphics")
remote_fx_Collect ==
  Join(collectRemoteFXNetworkCount) \o Join(collectRemoteFXGraphicsCounters)
remote_fx_Close == <<CloseQuery("network"), CloseQuery("graphics")>>
remote_fx == Sequential(remote_fx_Build, remote_fx_Collect, remote_fx_Close)

\* The part "broker" stands for a host that is a connection broker.
terminal_services_Build ==
  Return(<<MakeAll({"wts", "session", "broker"}), Sys>>)
    \o ReturnIf("broker", <<Open("broker")>>)
    \o Return(<<Call, Make("hServer"), Open("session")>>)
collectWTSSessions == <<Sys, Emit("wts")>>
collectTSSessionCounters == ReadEach("session")
collectCollectionBrokerPerformanceCounter == ReadFirst("broker")
terminal_services_Collect ==
  Join(collectWTSSessions) \o Join(collectTSSessionCounters)
    \o JoinIf("broker", collectCollectionBrokerPerformanceCounter)
terminal_services_Close ==
  <<Sys, CloseQuery("session"), CloseIf("broker", "broker")>>
terminal_services == Sequential(terminal_services_Build,
                                terminal_services_Collect, terminal_services_Close)

vmware_Build == Join(<<Open("cpu")>>) \o Join(<<Open("mem")>>)
                  \o Return(<<MakeAll({"mem", "cpu"})>>)
collectMem == ReadFirst("mem")
collectCpu == ReadFirst("cpu")
vmware_Collect == Join(collectCpu) \o Join(collectMem)
vmware_Close == <<CloseQuery("cpu"), CloseQuery("mem")>>
vmware == Sequential(vmware_Build, vmware_Collect, vmware_Close)

VirtualCollectors ==
  [container |-> container, hyperv |-> hyperv, mscluster |-> mscluster,
   mssql |-> mssql, netframework |-> netframework, remote_fx |-> remote_fx,
   terminal_services |-> terminal_services, vmware |-> vmware]
=============================================================================
