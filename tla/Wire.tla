-------------------------------- MODULE Wire --------------------------------
(* Protocol-buffer messages, as far as the framework depends on them. A     *)
(* message type is the sequence of the kinds of its fields, numbered from   *)
(* 1; a message is the sequence of their values. Bytes on the wire are the  *)
(* function from the numbers of the fields that were written to their wire  *)
(* type and value: there is nothing in them that names the message type.    *)
(* Names are valid UTF-8. A nested message stands for its own bytes.        *)
EXTENDS Integers, Sequences

RpcRequest  == <<"string", "string", "bytes", "string">>
RpcResponse == <<"string", "int32", "string", "bytes">>

ServiceRegisterRequest   == <<"string", "string", "int32">>
ServiceRegisterResponse  == <<"bool", "string">>
ServiceDiscoveryRequest  == <<"string">>
ServiceInfo              == <<"string", "int32", "int64">>
ServiceDiscoveryResponse == <<"repeated">>
HeartbeatRequest         == <<"string", "string", "int32">>
HeartbeatResponse        == <<"bool", "string">>
ClusterStatusRequest     == << >>

RequestVoteRequest   == <<"int64", "string", "int64", "int64">>
AppendEntriesRequest == <<"int64", "string", "int64", "int64", "repeated", "int64">>

EchoRequest  == <<"string">>
EchoResponse == <<"string">>
AddRequest   == <<"int32", "int32">>
AddResponse  == <<"int32">>

NoName == ""  \* the string that is empty

Default(kind) ==
  CASE kind \in {"string", "bytes"} -> NoName
    [] kind = "bool"     -> FALSE
    [] kind = "repeated" -> << >>
    [] OTHER             -> 0

Delimited == "length-delimited"
Varint    == "varint"
WireType(kind) == IF kind \in {"string", "bytes", "repeated"} THEN Delimited ELSE Varint

\* SerializeToString: a field that has its default value is not written
Serialize(type, m) ==
  [i \in {j \in DOMAIN type : m[j] # Default(type[j])} |-> [wire |-> WireType(type[i]), val |-> m[i]]]

\* ParseFromString: a field of another number or wire type is kept as unknown
Known(type, b, i) == i \in DOMAIN b /\ b[i].wire = WireType(type[i])
Parse(type, b) ==
  [i \in DOMAIN type |-> IF Known(type, b, i) THEN b[i].val ELSE Default(type[i])]

\* what TcpConnection sends as a length of zero
NoBytes(b) == DOMAIN b = {}

=============================================================================
