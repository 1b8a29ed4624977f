--------------------------- MODULE HbaseMethods ---------------------------
(***************************************************************************)
(* The methods of the HBase interface as the two ends of a connection      *)
(* implement them (public/hbase_storage/gen-cpp/Hbase.cpp).  What differs  *)
(* between the methods of one class is a record: the method's name on the  *)
(* wire, its structures, the exceptions it declares in the order they are  *)
(* tested or caught, and whether it returns a value.                       *)
(***************************************************************************)
EXTENDS HbaseStructs

Returning(n, a, r, e) == [fname |-> n, args |-> a, result |-> r, throws |-> e, returns |-> TRUE]
Void(n, a, r, e) == [fname |-> n, args |-> a, result |-> r, throws |-> e, returns |-> FALSE]

\* HbaseClient::X, send_X and recv_X.  A method that returns a value throws
\* MISSING_RESULT when the reply has neither success nor an exception.
client_enableTable == Void("enableTable", enableTable_args, enableTable_result, <<"io">>)
client_disableTable ==
    Void("disableTable", disableTable_args, disableTable_result, <<"io">>)
client_isTableEnabled ==
    Returning("isTableEnabled", isTableEnabled_args, isTableEnabled_result, <<"io">>)
client_compact == Void("compact", compact_args, compact_result, <<"io">>)
client_majorCompact ==
    Void("majorCompact", majorCompact_args, majorCompact_result, <<"io">>)
client_getTableNames ==
    Returning("getTableNames", getTableNames_args, getTableNames_result, <<"io">>)
client_getColumnDescriptors ==
    Returning("getColumnDescriptors", getColumnDescriptors_args, getColumnDescriptors_result, <<"io">>)
client_getTableRegions ==
    Returning("getTableRegions", getTableRegions_args, getTableRegions_result, <<"io">>)
client_createTable ==
    Void("createTable", createTable_args, createTable_result, <<"io", "ia", "exist">>)
client_deleteTable == Void("deleteTable", deleteTable_args, deleteTable_result, <<"io">>)
client_get == Returning("get", get_args, get_result, <<"io">>)
client_getVer == Returning("getVer", getVer_args, getVer_result, <<"io">>)
client_getVerTs == Returning("getVerTs", getVerTs_args, getVerTs_result, <<"io">>)
client_getRow == Returning("getRow", getRow_args, getRow_result, <<"io">>)
client_getRowWithColumns ==
    Returning("getRowWithColumns", getRowWithColumns_args, getRowWithColumns_result, <<"io">>)
client_getRowTs == Returning("getRowTs", getRowTs_args, getRowTs_result, <<"io">>)
client_getRowWithColumnsTs ==
    Returning("getRowWithColumnsTs", getRowWithColumnsTs_args, getRowWithColumnsTs_result, <<"io">>)
client_getRows == Returning("getRows", getRows_args, getRows_result, <<"io">>)
client_getRowsWithColumns ==
    Returning("getRowsWithColumns", getRowsWithColumns_args, getRowsWithColumns_result, <<"io">>)
client_getRowsTs == Returning("getRowsTs", getRowsTs_args, getRowsTs_result, <<"io">>)
client_getRowsWithColumnsTs ==
    Returning("getRowsWithColumnsTs", getRowsWithColumnsTs_args, getRowsWithColumnsTs_result, <<"io">>)
client_mutateRow == Void("mutateRow", mutateRow_args, mutateRow_result, <<"io", "ia">>)
client_mutateRowTs ==
    Void("mutateRowTs", mutateRowTs_args, mutateRowTs_result, <<"io", "ia">>)
client_mutateRows == Void("mutateRows", mutateRows_args, mutateRows_result, <<"io", "ia">>)
client_mutateRowsTs ==
    Void("mutateRowsTs", mutateRowsTs_args, mutateRowsTs_result, <<"io", "ia">>)
client_atomicIncrement ==
    Returning("atomicIncrement", atomicIncrement_args, atomicIncrement_result, <<"io", "ia">>)
client_deleteAll == Void("deleteAll", deleteAll_args, deleteAll_result, <<"io">>)
client_deleteAllTs == Void("deleteAllTs", deleteAllTs_args, deleteAllTs_result, <<"io">>)
client_deleteAllRow ==
    Void("deleteAllRow", deleteAllRow_args, deleteAllRow_result, <<"io">>)
client_increment == Void("increment", increment_args, increment_result, <<"io">>)
client_incrementRows ==
    Void("incrementRows", incrementRows_args, incrementRows_result, <<"io">>)
client_deleteAllRowTs ==
    Void("deleteAllRowTs", deleteAllRowTs_args, deleteAllRowTs_result, <<"io">>)
client_scannerOpenWithScan ==
    Returning("scannerOpenWithScan", scannerOpenWithScan_args, scannerOpenWithScan_result, <<"io">>)
client_scannerOpen ==
    Returning("scannerOpen", scannerOpen_args, scannerOpen_result, <<"io">>)
client_scannerOpenWithStop ==
    Returning("scannerOpenWithStop", scannerOpenWithStop_args, scannerOpenWithStop_result, <<"io">>)
client_scannerOpenWithPrefix ==
    Returning("scannerOpenWithPrefix", scannerOpenWithPrefix_args, scannerOpenWithPrefix_result, <<"io">>)
client_scannerOpenTs ==
    Returning("scannerOpenTs", scannerOpenTs_args, scannerOpenTs_result, <<"io">>)
client_scannerOpenWithStopTs ==
    Returning("scannerOpenWithStopTs", scannerOpenWithStopTs_args, scannerOpenWithStopTs_result, <<"io">>)
client_scannerGet ==
    Returning("scannerGet", scannerGet_args, scannerGet_result, <<"io", "ia">>)
client_scannerGetList ==
    Returning("scannerGetList", scannerGetList_args, scannerGetList_result, <<"io", "ia">>)
client_scannerClose ==
    Void("scannerClose", scannerClose_args, scannerClose_result, <<"io", "ia">>)
client_getRowOrBefore ==
    Returning("getRowOrBefore", getRowOrBefore_args, getRowOrBefore_result, <<"io">>)
client_getRegionInfo ==
    Returning("getRegionInfo", getRegionInfo_args, getRegionInfo_result, <<"io">>)

\* Every method of HbaseClient, by name.
client ==
    [enableTable |-> client_enableTable, disableTable |-> client_disableTable,
     isTableEnabled |-> client_isTableEnabled, compact |-> client_compact,
     majorCompact |-> client_majorCompact, getTableNames |-> client_getTableNames,
     getColumnDescriptors |-> client_getColumnDescriptors,
     getTableRegions |-> client_getTableRegions, createTable |-> client_createTable,
     deleteTable |-> client_deleteTable, get |-> client_get, getVer |-> client_getVer,
     getVerTs |-> client_getVerTs, getRow |-> client_getRow,
     getRowWithColumns |-> client_getRowWithColumns, getRowTs |-> client_getRowTs,
     getRowWithColumnsTs |-> client_getRowWithColumnsTs, getRows |-> client_getRows,
     getRowsWithColumns |-> client_getRowsWithColumns, getRowsTs |-> client_getRowsTs,
     getRowsWithColumnsTs |-> client_getRowsWithColumnsTs,
     mutateRow |-> client_mutateRow, mutateRowTs |-> client_mutateRowTs,
     mutateRows |-> client_mutateRows, mutateRowsTs |-> client_mutateRowsTs,
     atomicIncrement |-> client_atomicIncrement, deleteAll |-> client_deleteAll,
     deleteAllTs |-> client_deleteAllTs, deleteAllRow |-> client_deleteAllRow,
     increment |-> client_increment, incrementRows |-> client_incrementRows,
     deleteAllRowTs |-> client_deleteAllRowTs,
     scannerOpenWithScan |-> client_scannerOpenWithScan,
     scannerOpen |-> client_scannerOpen,
     scannerOpenWithStop |-> client_scannerOpenWithStop,
     scannerOpenWithPrefix |-> client_scannerOpenWithPrefix,
     scannerOpenTs |-> client_scannerOpenTs,
     scannerOpenWithStopTs |-> client_scannerOpenWithStopTs,
     scannerGet |-> client_scannerGet, scannerGetList |-> client_scannerGetList,
     scannerClose |-> client_scannerClose, getRowOrBefore |-> client_getRowOrBefore,
     getRegionInfo |-> client_getRegionInfo]

\* HbaseProcessor::process_X.  Any other exception the handler throws is caught
\* as a std::exception.
process_enableTable == Void("enableTable", enableTable_args, enableTable_result, <<"io">>)
process_disableTable ==
    Void("disableTable", disableTable_args, disableTable_result, <<"io">>)
process_isTableEnabled ==
    Returning("isTableEnabled", isTableEnabled_args, isTableEnabled_result, <<"io">>)
process_compact == Void("compact", compact_args, compact_result, <<"io">>)
process_majorCompact ==
    Void("majorCompact", majorCompact_args, majorCompact_result, <<"io">>)
process_getTableNames ==
    Returning("getTableNames", getTableNames_args, getTableNames_result, <<"io">>)
process_getColumnDescriptors ==
    Returning("getColumnDescriptors", getColumnDescriptors_args, getColumnDescriptors_result, <<"io">>)
process_getTableRegions ==
    Returning("getTableRegions", getTableRegions_args, getTableRegions_result, <<"io">>)
process_createTable ==
    Void("createTable", createTable_args, createTable_result, <<"io", "ia", "exist">>)
process_deleteTable == Void("deleteTable", deleteTable_args, deleteTable_result, <<"io">>)
process_get == Returning("get", get_args, get_result, <<"io">>)
process_getVer == Returning("getVer", getVer_args, getVer_result, <<"io">>)
process_getVerTs == Returning("getVerTs", getVerTs_args, getVerTs_result, <<"io">>)
process_getRow == Returning("getRow", getRow_args, getRow_result, <<"io">>)
process_getRowWithColumns ==
    Returning("getRowWithColumns", getRowWithColumns_args, getRowWithColumns_result, <<"io">>)
process_getRowTs == Returning("getRowTs", getRowTs_args, getRowTs_result, <<"io">>)
process_getRowWithColumnsTs ==
    Returning("getRowWithColumnsTs", getRowWithColumnsTs_args, getRowWithColumnsTs_result, <<"io">>)
process_getRows == Returning("getRows", getRows_args, getRows_result, <<"io">>)
process_getRowsWithColumns ==
    Returning("getRowsWithColumns", getRowsWithColumns_args, getRowsWithColumns_result, <<"io">>)
process_getRowsTs == Returning("getRowsTs", getRowsTs_args, getRowsTs_result, <<"io">>)
process_getRowsWithColumnsTs ==
    Returning("getRowsWithColumnsTs", getRowsWithColumnsTs_args, getRowsWithColumnsTs_result, <<"io">>)
process_mutateRow == Void("mutateRow", mutateRow_args, mutateRow_result, <<"io", "ia">>)
process_mutateRowTs ==
    Void("mutateRowTs", mutateRowTs_args, mutateRowTs_result, <<"io", "ia">>)
process_mutateRows == Void("mutateRows", mutateRows_args, mutateRows_result, <<"io", "ia">>)
process_mutateRowsTs ==
    Void("mutateRowsTs", mutateRowsTs_args, mutateRowsTs_result, <<"io", "ia">>)
process_atomicIncrement ==
    Returning("atomicIncrement", atomicIncrement_args, atomicIncrement_result, <<"io", "ia">>)
process_deleteAll == Void("deleteAll", deleteAll_args, deleteAll_result, <<"io">>)
process_deleteAllTs == Void("deleteAllTs", deleteAllTs_args, deleteAllTs_result, <<"io">>)
process_deleteAllRow ==
    Void("deleteAllRow", deleteAllRow_args, deleteAllRow_result, <<"io">>)
process_increment == Void("increment", increment_args, increment_result, <<"io">>)
process_incrementRows ==
    Void("incrementRows", incrementRows_args, incrementRows_result, <<"io">>)
process_deleteAllRowTs ==
    Void("deleteAllRowTs", deleteAllRowTs_args, deleteAllRowTs_result, <<"io">>)
process_scannerOpenWithScan ==
    Returning("scannerOpenWithScan", scannerOpenWithScan_args, scannerOpenWithScan_result, <<"io">>)
process_scannerOpen ==
    Returning("scannerOpen", scannerOpen_args, scannerOpen_result, <<"io">>)
process_scannerOpenWithStop ==
    Returning("scannerOpenWithStop", scannerOpenWithStop_args, scannerOpenWithStop_result, <<"io">>)
process_scannerOpenWithPrefix ==
    Returning("scannerOpenWithPrefix", scannerOpenWithPrefix_args, scannerOpenWithPrefix_result, <<"io">>)
process_scannerOpenTs ==
    Returning("scannerOpenTs", scannerOpenTs_args, scannerOpenTs_result, <<"io">>)
process_scannerOpenWithStopTs ==
    Returning("scannerOpenWithStopTs", scannerOpenWithStopTs_args, scannerOpenWithStopTs_result, <<"io">>)
process_scannerGet ==
    Returning("scannerGet", scannerGet_args, scannerGet_result, <<"io", "ia">>)
process_scannerGetList ==
    Returning("scannerGetList", scannerGetList_args, scannerGetList_result, <<"io", "ia">>)
process_scannerClose ==
    Void("scannerClose", scannerClose_args, scannerClose_result, <<"io", "ia">>)
process_getRowOrBefore ==
    Returning("getRowOrBefore", getRowOrBefore_args, getRowOrBefore_result, <<"io">>)
process_getRegionInfo ==
    Returning("getRegionInfo", getRegionInfo_args, getRegionInfo_result, <<"io">>)

\* What the constructor of HbaseProcessor puts in processMap_.
processMap ==
    [enableTable |-> process_enableTable, disableTable |-> process_disableTable,
     isTableEnabled |-> process_isTableEnabled, compact |-> process_compact,
     majorCompact |-> process_majorCompact, getTableNames |-> process_getTableNames,
     getColumnDescriptors |-> process_getColumnDescriptors,
     getTableRegions |-> process_getTableRegions, createTable |-> process_createTable,
     deleteTable |-> process_deleteTable, get |-> process_get,
     getVer |-> process_getVer, getVerTs |-> process_getVerTs,
     getRow |-> process_getRow, getRowWithColumns |-> process_getRowWithColumns,
     getRowTs |-> process_getRowTs, getRowWithColumnsTs |-> process_getRowWithColumnsTs,
     getRows |-> process_getRows, getRowsWithColumns |-> process_getRowsWithColumns,
     getRowsTs |-> process_getRowsTs,
     getRowsWithColumnsTs |-> process_getRowsWithColumnsTs,
     mutateRow |-> process_mutateRow, mutateRowTs |-> process_mutateRowTs,
     mutateRows |-> process_mutateRows, mutateRowsTs |-> process_mutateRowsTs,
     atomicIncrement |-> process_atomicIncrement, deleteAll |-> process_deleteAll,
     deleteAllTs |-> process_deleteAllTs, deleteAllRow |-> process_deleteAllRow,
     increment |-> process_increment, incrementRows |-> process_incrementRows,
     deleteAllRowTs |-> process_deleteAllRowTs,
     scannerOpenWithScan |-> process_scannerOpenWithScan,
     scannerOpen |-> process_scannerOpen,
     scannerOpenWithStop |-> process_scannerOpenWithStop,
     scannerOpenWithPrefix |-> process_scannerOpenWithPrefix,
     scannerOpenTs |-> process_scannerOpenTs,
     scannerOpenWithStopTs |-> process_scannerOpenWithStopTs,
     scannerGet |-> process_scannerGet, scannerGetList |-> process_scannerGetList,
     scannerClose |-> process_scannerClose, getRowOrBefore |-> process_getRowOrBefore,
     getRegionInfo |-> process_getRegionInfo]

\* HbaseConcurrentClient::X, send_X and recv_X.
concurrent_enableTable ==
    Void("enableTable", enableTable_args, enableTable_result, <<"io">>)
concurrent_disableTable ==
    Void("disableTable", disableTable_args, disableTable_result, <<"io">>)
concurrent_isTableEnabled ==
    Returning("isTableEnabled", isTableEnabled_args, isTableEnabled_result, <<"io">>)
concurrent_compact == Void("compact", compact_args, compact_result, <<"io">>)
concurrent_majorCompact ==
    Void("majorCompact", majorCompact_args, majorCompact_result, <<"io">>)
concurrent_getTableNames ==
    Returning("getTableNames", getTableNames_args, getTableNames_result, <<"io">>)
concurrent_getColumnDescriptors ==
    Returning("getColumnDescriptors", getColumnDescriptors_args, getColumnDescriptors_result, <<"io">>)
concurrent_getTableRegions ==
    Returning("getTableRegions", getTableRegions_args, getTableRegions_result, <<"io">>)
concurrent_createTable ==
    Void("createTable", createTable_args, createTable_result, <<"io", "ia", "exist">>)
concurrent_deleteTable ==
    Void("deleteTable", deleteTable_args, deleteTable_result, <<"io">>)
concurrent_get == Returning("get", get_args, get_result, <<"io">>)
concurrent_getVer == Returning("getVer", getVer_args, getVer_result, <<"io">>)
concurrent_getVerTs == Returning("getVerTs", getVerTs_args, getVerTs_result, <<"io">>)
concurrent_getRow == Returning("getRow", getRow_args, getRow_result, <<"io">>)
concurrent_getRowWithColumns ==
    Returning("getRowWithColumns", getRowWithColumns_args, getRowWithColumns_result, <<"io">>)
concurrent_getRowTs == Returning("getRowTs", getRowTs_args, getRowTs_result, <<"io">>)
concurrent_getRowWithColumnsTs ==
    Returning("getRowWithColumnsTs", getRowWithColumnsTs_args, getRowWithColumnsTs_result, <<"io">>)
concurrent_getRows == Returning("getRows", getRows_args, getRows_result, <<"io">>)
concurrent_getRowsWithColumns ==
    Returning("getRowsWithColumns", getRowsWithColumns_args, getRowsWithColumns_result, <<"io">>)
concurrent_getRowsTs == Returning("getRowsTs", getRowsTs_args, getRowsTs_result, <<"io">>)
concurrent_getRowsWithColumnsTs ==
    Returning("getRowsWithColumnsTs", getRowsWithColumnsTs_args, getRowsWithColumnsTs_result, <<"io">>)
concurrent_mutateRow == Void("mutateRow", mutateRow_args, mutateRow_result, <<"io", "ia">>)
concurrent_mutateRowTs ==
    Void("mutateRowTs", mutateRowTs_args, mutateRowTs_result, <<"io", "ia">>)
concurrent_mutateRows ==
    Void("mutateRows", mutateRows_args, mutateRows_result, <<"io", "ia">>)
concurrent_mutateRowsTs ==
    Void("mutateRowsTs", mutateRowsTs_args, mutateRowsTs_result, <<"io", "ia">>)
concurrent_atomicIncrement ==
    Returning("atomicIncrement", atomicIncrement_args, atomicIncrement_result, <<"io", "ia">>)
concurrent_deleteAll == Void("deleteAll", deleteAll_args, deleteAll_result, <<"io">>)
concurrent_deleteAllTs ==
    Void("deleteAllTs", deleteAllTs_args, deleteAllTs_result, <<"io">>)
concurrent_deleteAllRow ==
    Void("deleteAllRow", deleteAllRow_args, deleteAllRow_result, <<"io">>)
concurrent_increment == Void("increment", increment_args, increment_result, <<"io">>)
concurrent_incrementRows ==
    Void("incrementRows", incrementRows_args, incrementRows_result, <<"io">>)
concurrent_deleteAllRowTs ==
    Void("deleteAllRowTs", deleteAllRowTs_args, deleteAllRowTs_result, <<"io">>)
concurrent_scannerOpenWithScan ==
    Returning("scannerOpenWithScan", scannerOpenWithScan_args, scannerOpenWithScan_result, <<"io">>)
concurrent_scannerOpen ==
    Returning("scannerOpen", scannerOpen_args, scannerOpen_result, <<"io">>)
concurrent_scannerOpenWithStop ==
    Returning("scannerOpenWithStop", scannerOpenWithStop_args, scannerOpenWithStop_result, <<"io">>)
concurrent_scannerOpenWithPrefix ==
    Returning("scannerOpenWithPrefix", scannerOpenWithPrefix_args, scannerOpenWithPrefix_result, <<"io">>)
concurrent_scannerOpenTs ==
    Returning("scannerOpenTs", scannerOpenTs_args, scannerOpenTs_result, <<"io">>)
concurrent_scannerOpenWithStopTs ==
    Returning("scannerOpenWithStopTs", scannerOpenWithStopTs_args, scannerOpenWithStopTs_result, <<"io">>)
concurrent_scannerGet ==
    Returning("scannerGet", scannerGet_args, scannerGet_result, <<"io", "ia">>)
concurrent_scannerGetList ==
    Returning("scannerGetList", scannerGetList_args, scannerGetList_result, <<"io", "ia">>)
concurrent_scannerClose ==
    Void("scannerClose", scannerClose_args, scannerClose_result, <<"io", "ia">>)
concurrent_getRowOrBefore ==
    Returning("getRowOrBefore", getRowOrBefore_args, getRowOrBefore_result, <<"io">>)
concurrent_getRegionInfo ==
    Returning("getRegionInfo", getRegionInfo_args, getRegionInfo_result, <<"io">>)

\* Every method of HbaseConcurrentClient, by name.
concurrent ==
    [enableTable |-> concurrent_enableTable, disableTable |-> concurrent_disableTable,
     isTableEnabled |-> concurrent_isTableEnabled, compact |-> concurrent_compact,
     majorCompact |-> concurrent_majorCompact,
     getTableNames |-> concurrent_getTableNames,
     getColumnDescriptors |-> concurrent_getColumnDescriptors,
     getTableRegions |-> concurrent_getTableRegions,
     createTable |-> concurrent_createTable, deleteTable |-> concurrent_deleteTable,
     get |-> concurrent_get, getVer |-> concurrent_getVer,
     getVerTs |-> concurrent_getVerTs, getRow |-> concurrent_getRow,
     getRowWithColumns |-> concurrent_getRowWithColumns,
     getRowTs |-> concurrent_getRowTs,
     getRowWithColumnsTs |-> concurrent_getRowWithColumnsTs,
     getRows |-> concurrent_getRows,
     getRowsWithColumns |-> concurrent_getRowsWithColumns,
     getRowsTs |-> concurrent_getRowsTs,
     getRowsWithColumnsTs |-> concurrent_getRowsWithColumnsTs,
     mutateRow |-> concurrent_mutateRow, mutateRowTs |-> concurrent_mutateRowTs,
     mutateRows |-> concurrent_mutateRows, mutateRowsTs |-> concurrent_mutateRowsTs,
     atomicIncrement |-> concurrent_atomicIncrement, deleteAll |-> concurrent_deleteAll,
     deleteAllTs |-> concurrent_deleteAllTs, deleteAllRow |-> concurrent_deleteAllRow,
     increment |-> concurrent_increment, incrementRows |-> concurrent_incrementRows,
     deleteAllRowTs |-> concurrent_deleteAllRowTs,
     scannerOpenWithScan |-> concurrent_scannerOpenWithScan,
     scannerOpen |-> concurrent_scannerOpen,
     scannerOpenWithStop |-> concurrent_scannerOpenWithStop,
     scannerOpenWithPrefix |-> concurrent_scannerOpenWithPrefix,
     scannerOpenTs |-> concurrent_scannerOpenTs,
     scannerOpenWithStopTs |-> concurrent_scannerOpenWithStopTs,
     scannerGet |-> concurrent_scannerGet, scannerGetList |-> concurrent_scannerGetList,
     scannerClose |-> concurrent_scannerClose,
     getRowOrBefore |-> concurrent_getRowOrBefore,
     getRegionInfo |-> concurrent_getRegionInfo]

Methods == DOMAIN client
=============================================================================
