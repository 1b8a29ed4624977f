--------------------------- MODULE HbaseStructs ---------------------------
(***************************************************************************)
(* The structures of the generated HBase client and server                 *)
(* (public/hbase_storage/gen-cpp): for each, its fields in the order       *)
(* write() writes them, with the id and the type read() expects.  The      *)
(* readers and the writers of one structure agree on these (X_args with    *)
(* X_pargs, X_result with X_presult).                                      *)
(***************************************************************************)
EXTENDS Integers, Sequences

Bool == <<"bool">>
Byte == <<"byte">>
I32 == <<"i32">>
I64 == <<"i64">>
Str == <<"string">>
List(t) == <<"list", t>>
Map(t) == <<"map", t>>            \* the keys of every map here are strings
Struct(s) == <<"struct", s>>
Tag(t) == t[1]

\* A field that is always written, and one that is written only if it is set.
F(i, n, t) == [id |-> i, name |-> n, type |-> t, optional |-> FALSE]
Opt(i, n, t) == [id |-> i, name |-> n, type |-> t, optional |-> TRUE]

\* The structures of Hbase_types.cpp.
IOError == <<F(1, "message", Str)>>
IllegalArgument == <<F(1, "message", Str)>>
AlreadyExists == <<F(1, "message", Str)>>
TCell == <<F(1, "value", Str), F(2, "timestamp", I64)>>
ColumnDescriptor ==
    <<F(1, "name", Str), F(2, "maxVersions", I32), F(3, "compression", Str),
      F(4, "inMemory", Bool), F(5, "bloomFilterType", Str),
      F(6, "bloomFilterVectorSize", I32), F(7, "bloomFilterNbHashes", I32),
      F(8, "blockCacheEnabled", Bool), F(9, "timeToLive", I32)>>
TRegionInfo ==
    <<F(1, "startKey", Str), F(2, "endKey", Str), F(3, "id", I64), F(4, "name", Str),
      F(5, "version", Byte), F(6, "serverName", Str), F(7, "port", I32)>>
Mutation ==
    <<F(1, "isDelete", Bool), F(2, "column", Str), F(3, "value", Str),
      F(4, "writeToWAL", Bool)>>
BatchMutation == <<F(1, "row", Str), F(2, "mutations", List(Struct(Mutation)))>>
TIncrement ==
    <<F(1, "table", Str), F(2, "row", Str), F(3, "column", Str), F(4, "ammount", I64)>>
TColumn == <<F(1, "columnName", Str), F(2, "cell", Struct(TCell))>>
TRowResult ==
    <<F(1, "row", Str), Opt(2, "columns", Map(Struct(TCell))),
      Opt(3, "sortedColumns", List(Struct(TColumn)))>>
TScan ==
    <<Opt(1, "startRow", Str), Opt(2, "stopRow", Str), Opt(3, "timestamp", I64),
      Opt(4, "columns", List(Str)), Opt(5, "caching", I32), Opt(6, "filterString", Str),
      Opt(7, "sortColumns", Bool)>>

\* The arguments of the methods: read by the processor, written by both clients.
enableTable_args == <<F(1, "tableName", Str)>>
disableTable_args == <<F(1, "tableName", Str)>>
isTableEnabled_args == <<F(1, "tableName", Str)>>
compact_args == <<F(1, "tableNameOrRegionName", Str)>>
majorCompact_args == <<F(1, "tableNameOrRegionName", Str)>>
getTableNames_args == <<>>
getColumnDescriptors_args == <<F(1, "tableName", Str)>>
getTableRegions_args == <<F(1, "tableName", Str)>>
createTable_args ==
    <<F(1, "tableName", Str), F(2, "columnFamilies", List(Struct(ColumnDescriptor)))>>
deleteTable_args == <<F(1, "tableName", Str)>>
get_args ==
    <<F(1, "tableName", Str), F(2, "row", Str), F(3, "column", Str),
      F(4, "attributes", Map(Str))>>
getVer_args ==
    <<F(1, "tableName", Str), F(2, "row", Str), F(3, "column", Str),
      F(4, "numVersions", I32), F(5, "attributes", Map(Str))>>
getVerTs_args ==
    <<F(1, "tableName", Str), F(2, "row", Str), F(3, "column", Str),
      F(4, "timestamp", I64), F(5, "numVersions", I32), F(6, "attributes", Map(Str))>>
getRow_args == <<F(1, "tableName", Str), F(2, "row", Str), F(3, "attributes", Map(Str))>>
getRowWithColumns_args ==
    <<F(1, "tableName", Str), F(2, "row", Str), F(3, "columns", List(Str)),
      F(4, "attributes", Map(Str))>>
getRowTs_args ==
    <<F(1, "tableName", Str), F(2, "row", Str), F(3, "timestamp", I64),
      F(4, "attributes", Map(Str))>>
getRowWithColumnsTs_args ==
    <<F(1, "tableName", Str), F(2, "row", Str), F(3, "columns", List(Str)),
      F(4, "timestamp", I64), F(5, "attributes", Map(Str))>>
getRows_args ==
    <<F(1, "tableName", Str), F(2, "rows", List(Str)), F(3, "attributes", Map(Str))>>
getRowsWithColumns_args ==
    <<F(1, "tableName", Str), F(2, "rows", List(Str)), F(3, "columns", List(Str)),
      F(4, "attributes", Map(Str))>>
getRowsTs_args ==
    <<F(1, "tableName", Str), F(2, "rows", List(Str)), F(3, "timestamp", I64),
      F(4, "attributes", Map(Str))>>
getRowsWithColumnsTs_args ==
    <<F(1, "tableName", Str), F(2, "rows", List(Str)), F(3, "columns", List(Str)),
      F(4, "timestamp", I64), F(5, "attributes", Map(Str))>>
mutateRow_args ==
    <<F(1, "tableName", Str), F(2, "row", Str),
      F(3, "mutations", List(Struct(Mutation))), F(4, "attributes", Map(Str))>>
mutateRowTs_args ==
    <<F(1, "tableName", Str), F(2, "row", Str),
      F(3, "mutations", List(Struct(Mutation))), F(4, "timestamp", I64),
      F(5, "attributes", Map(Str))>>
mutateRows_args ==
    <<F(1, "tableName", Str), F(2, "rowBatches", List(Struct(BatchMutation))),
      F(3, "attributes", Map(Str))>>
mutateRowsTs_args ==
    <<F(1, "tableName", Str), F(2, "rowBatches", List(Struct(BatchMutation))),
      F(3, "timestamp", I64), F(4, "attributes", Map(Str))>>
atomicIncrement_args ==
    <<F(1, "tableName", Str), F(2, "row", Str), F(3, "column", Str), F(4, "value", I64)>>
deleteAll_args ==
    <<F(1, "tableName", Str), F(2, "row", Str), F(3, "column", Str),
      F(4, "attributes", Map(Str))>>
deleteAllTs_args ==
    <<F(1, "tableName", Str), F(2, "row", Str), F(3, "column", Str),
      F(4, "timestamp", I64), F(5, "attributes", Map(Str))>>
deleteAllRow_args ==
    <<F(1, "tableName", Str), F(2, "row", Str), F(3, "attributes", Map(Str))>>
increment_args == <<F(1, "increment", Struct(TIncrement))>>
incrementRows_args == <<F(1, "increments", List(Struct(TIncrement)))>>
deleteAllRowTs_args ==
    <<F(1, "tableName", Str), F(2, "row", Str), F(3, "timestamp", I64),
      F(4, "attributes", Map(Str))>>
scannerOpenWithScan_args ==
    <<F(1, "tableName", Str), F(2, "scan", Struct(TScan)), F(3, "attributes", Map(Str))>>
scannerOpen_args ==
    <<F(1, "tableName", Str), F(2, "startRow", Str), F(3, "columns", List(Str)),
      F(4, "attributes", Map(Str))>>
scannerOpenWithStop_args ==
    <<F(1, "tableName", Str), F(2, "startRow", Str), F(3, "stopRow", Str),
      F(4, "columns", List(Str)), F(5, "attributes", Map(Str))>>
scannerOpenWithPrefix_args ==
    <<F(1, "tableName", Str), F(2, "startAndPrefix", Str), F(3, "columns", List(Str)),
      F(4, "attributes", Map(Str))>>
scannerOpenTs_args ==
    <<F(1, "tableName", Str), F(2, "startRow", Str), F(3, "columns", List(Str)),
      F(4, "timestamp", I64), F(5, "attributes", Map(Str))>>
scannerOpenWithStopTs_args ==
    <<F(1, "tableName", Str), F(2, "startRow", Str), F(3, "stopRow", Str),
      F(4, "columns", List(Str)), F(5, "timestamp", I64), F(6, "attributes", Map(Str))>>
scannerGet_args == <<F(1, "id", I32)>>
scannerGetList_args == <<F(1, "id", I32), F(2, "nbRows", I32)>>
scannerClose_args == <<F(1, "id", I32)>>
getRowOrBefore_args == <<F(1, "tableName", Str), F(2, "row", Str), F(3, "family", Str)>>
getRegionInfo_args == <<F(1, "row", Str)>>

\* The results: success is the value of a method that returns one.
enableTable_result == <<F(1, "io", Struct(IOError))>>
disableTable_result == <<F(1, "io", Struct(IOError))>>
isTableEnabled_result == <<F(0, "success", Bool), F(1, "io", Struct(IOError))>>
compact_result == <<F(1, "io", Struct(IOError))>>
majorCompact_result == <<F(1, "io", Struct(IOError))>>
getTableNames_result == <<F(0, "success", List(Str)), F(1, "io", Struct(IOError))>>
getColumnDescriptors_result ==
    <<F(0, "success", Map(Struct(ColumnDescriptor))), F(1, "io", Struct(IOError))>>
getTableRegions_result ==
    <<F(0, "success", List(Struct(TRegionInfo))), F(1, "io", Struct(IOError))>>
createTable_result ==
    <<F(1, "io", Struct(IOError)), F(2, "ia", Struct(IllegalArgument)),
      F(3, "exist", Struct(AlreadyExists))>>
deleteTable_result == <<F(1, "io", Struct(IOError))>>
get_result == <<F(0, "success", List(Struct(TCell))), F(1, "io", Struct(IOError))>>
getVer_result == <<F(0, "success", List(Struct(TCell))), F(1, "io", Struct(IOError))>>
getVerTs_result == <<F(0, "success", List(Struct(TCell))), F(1, "io", Struct(IOError))>>
getRow_result == <<F(0, "success", List(Struct(TRowResult))), F(1, "io", Struct(IOError))>>
getRowWithColumns_result ==
    <<F(0, "success", List(Struct(TRowResult))), F(1, "io", Struct(IOError))>>
getRowTs_result ==
    <<F(0, "success", List(Struct(TRowResult))), F(1, "io", Struct(IOError))>>
getRowWithColumnsTs_result ==
    <<F(0, "success", List(Struct(TRowResult))), F(1, "io", Struct(IOError))>>
getRows_result == <<F(0, "success", List(Struct(TRowResult))), F(1, "io", Struct(IOError))>>
getRowsWithColumns_result ==
    <<F(0, "success", List(Struct(TRowResult))), F(1, "io", Struct(IOError))>>
getRowsTs_result ==
    <<F(0, "success", List(Struct(TRowResult))), F(1, "io", Struct(IOError))>>
getRowsWithColumnsTs_result ==
    <<F(0, "success", List(Struct(TRowResult))), F(1, "io", Struct(IOError))>>
mutateRow_result == <<F(1, "io", Struct(IOError)), F(2, "ia", Struct(IllegalArgument))>>
mutateRowTs_result == <<F(1, "io", Struct(IOError)), F(2, "ia", Struct(IllegalArgument))>>
mutateRows_result == <<F(1, "io", Struct(IOError)), F(2, "ia", Struct(IllegalArgument))>>
mutateRowsTs_result == <<F(1, "io", Struct(IOError)), F(2, "ia", Struct(IllegalArgument))>>
atomicIncrement_result ==
    <<F(0, "success", I64), F(1, "io", Struct(IOError)),
      F(2, "ia", Struct(IllegalArgument))>>
deleteAll_result == <<F(1, "io", Struct(IOError))>>
deleteAllTs_result == <<F(1, "io", Struct(IOError))>>
deleteAllRow_result == <<F(1, "io", Struct(IOError))>>
increment_result == <<F(1, "io", Struct(IOError))>>
incrementRows_result == <<F(1, "io", Struct(IOError))>>
deleteAllRowTs_result == <<F(1, "io", Struct(IOError))>>
scannerOpenWithScan_result == <<F(0, "success", I32), F(1, "io", Struct(IOError))>>
scannerOpen_result == <<F(0, "success", I32), F(1, "io", Struct(IOError))>>
scannerOpenWithStop_result == <<F(0, "success", I32), F(1, "io", Struct(IOError))>>
scannerOpenWithPrefix_result == <<F(0, "success", I32), F(1, "io", Struct(IOError))>>
scannerOpenTs_result == <<F(0, "success", I32), F(1, "io", Struct(IOError))>>
scannerOpenWithStopTs_result == <<F(0, "success", I32), F(1, "io", Struct(IOError))>>
scannerGet_result ==
    <<F(0, "success", List(Struct(TRowResult))), F(1, "io", Struct(IOError)),
      F(2, "ia", Struct(IllegalArgument))>>
scannerGetList_result ==
    <<F(0, "success", List(Struct(TRowResult))), F(1, "io", Struct(IOError)),
      F(2, "ia", Struct(IllegalArgument))>>
scannerClose_result == <<F(1, "io", Struct(IOError)), F(2, "ia", Struct(IllegalArgument))>>
getRowOrBefore_result ==
    <<F(0, "success", List(Struct(TCell))), F(1, "io", Struct(IOError))>>
getRegionInfo_result ==
    <<F(0, "success", Struct(TRegionInfo)), F(1, "io", Struct(IOError))>>
=============================================================================
