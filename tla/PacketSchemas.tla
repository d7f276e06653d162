---------------------------- MODULE PacketSchemas ----------------------------
(***************************************************************************)
(* The packets of the Firebase protocol, as the classes of                 *)
(* js/fb/firebase-protocol-1.8.0-CE-javascript.js declare them. In every   *)
(* class save() writes the fields, load() reads them and                   *)
(* getNormalizedObject() copies them in one and the same order, so a class *)
(* is its CLASSID and the sequence of its fields. The kind of a field says *)
(* which calls stand for it:                                               *)
(*   I32, I16, I8, I64   writeInt, writeShort, writeByte, writeLong        *)
(*   Flag, Text          writeBoolean, writeString                         *)
(*   Enum(names)         writeUnsignedByte, make<Enum>(readUnsignedByte)   *)
(*   Blob                the length and writeArray of a byte array         *)
(*   Many(kind)          the length, then each element                     *)
(*   Obj(class)          writeArray of the nested object's save()          *)
(***************************************************************************)
Kind(name) == [kind |-> name]
I32 == Kind("I32")
I16 == Kind("I16")
I8 == Kind("I8")
I64 == Kind("I64")
Flag == Kind("Flag")
Text == Kind("Text")
Blob == Kind("Blob")
Enum(names) == [kind |-> "Enum", names |-> names]
Many(of) == [kind |-> "Many", of |-> of]
Obj(class) == [kind |-> "Obj", class |-> class]

Field(name, kind) == [name |-> name, kind |-> kind]
Class(id, fields) == [id |-> id, fields |-> fields]

-----------------------------------------------------------------------------
\* The enumerations: the name of ordinal n is at n + 1.

FilteredJoinResponseStatusEnum ==
  <<"OK", "FAILED", "DENIED", "SEATING", "WAIT_LIST">>
JoinResponseStatusEnum ==
  <<"OK", "FAILED", "DENIED">>
LobbyTypeEnum ==
  <<"REGULAR", "MTT">>
PlayerStatusEnum ==
  <<"CONNECTED", "WAITING_REJOIN", "DISCONNECTED", "LEAVING", "TABLE_LOCAL", "RESERVATION">>
ResponseStatusEnum ==
  <<"OK", "FAILED", "DENIED">>
TournamentRegisterResponseStatusEnum ==
  <<"OK", "FAILED", "DENIED", "DENIED_LOW_FUNDS", "DENIED_MTT_FULL", "DENIED_NO_ACCESS",
    "DENIED_ALREADY_REGISTERED", "DENIED_TOURNAMENT_RUNNING">>
WatchResponseStatusEnum ==
  <<"OK", "FAILED", "DENIED", "DENIED_ALREADY_SEATED">>

-----------------------------------------------------------------------------
\* The packets, a nested class before the classes that hold it.

Attribute == Class(8, <<Field("name", Text), Field("value", Text)>>)
BadPacket == Class(3, <<Field("cmd", I8), Field("error", I8)>>)
ChannelChatPacket == Class(124, <<
  Field("channelid", I32), Field("targetid", I32), Field("message", Text)>>)
Param == Class(5, <<Field("key", Text), Field("type", I8), Field("value", Blob)>>)
CreateTableRequestPacket == Class(40, <<
  Field("seq", I32), Field("gameid", I32), Field("seats", I8),
  Field("params", Many(Obj(Param))), Field("invitees", Many(I32))>>)
CreateTableResponsePacket == Class(41, <<
  Field("seq", I32), Field("tableid", I32), Field("seat", I8),
  Field("status", Enum(ResponseStatusEnum)), Field("code", I32)>>)
EncryptedTransportPacket == Class(105, <<
  Field("func", I8), Field("payload", Blob)>>)
FilteredJoinCancelRequestPacket == Class(172, <<Field("seq", I32)>>)
FilteredJoinCancelResponsePacket == Class(173, <<
  Field("seq", I32), Field("status", Enum(ResponseStatusEnum))>>)
FilteredJoinTableAvailablePacket == Class(174, <<
  Field("seq", I32), Field("tableid", I32), Field("seat", I8)>>)
ParamFilter == Class(6, <<Field("param", Obj(Param)), Field("op", I8)>>)
FilteredJoinTableRequestPacket == Class(170, <<
  Field("seq", I32), Field("gameid", I32), Field("address", Text),
  Field("params", Many(Obj(ParamFilter)))>>)
FilteredJoinTableResponsePacket == Class(171, <<
  Field("seq", I32), Field("gameid", I32), Field("address", Text),
  Field("status", Enum(FilteredJoinResponseStatusEnum))>>)
ForcedLogoutPacket == Class(14, <<Field("code", I32), Field("message", Text)>>)
GameTransportPacket == Class(100, <<
  Field("tableid", I32), Field("pid", I32), Field("gamedata", Blob),
  Field("attributes", Many(Obj(Attribute)))>>)
GameVersionPacket == Class(1, <<
  Field("game", I32), Field("operatorid", I32), Field("version", Text)>>)
GoodPacket == Class(2, <<Field("cmd", I8), Field("extra", I32)>>)
InvitePlayersRequestPacket == Class(42, <<
  Field("tableid", I32), Field("invitees", Many(I32))>>)
JoinChatChannelRequestPacket == Class(120, <<Field("channelid", I32)>>)
JoinChatChannelResponsePacket == Class(121, <<
  Field("channelid", I32), Field("status", Enum(ResponseStatusEnum))>>)
JoinRequestPacket == Class(30, <<
  Field("tableid", I32), Field("seat", I8), Field("params", Many(Obj(Param)))>>)
JoinResponsePacket == Class(31, <<
  Field("tableid", I32), Field("seat", I8),
  Field("status", Enum(JoinResponseStatusEnum)), Field("code", I32)>>)
KickPlayerPacket == Class(64, <<Field("tableid", I32), Field("reasonCode", I16)>>)
LeaveChatChannelPacket == Class(122, <<Field("channelid", I32)>>)
LeaveRequestPacket == Class(36, <<Field("tableid", I32)>>)
LeaveResponsePacket == Class(37, <<
  Field("tableid", I32), Field("status", Enum(ResponseStatusEnum)),
  Field("code", I32)>>)
LobbyObjectSubscribePacket == Class(151, <<
  Field("type", Enum(LobbyTypeEnum)), Field("gameid", I32),
  Field("address", Text), Field("objectid", I32)>>)
LobbyObjectUnsubscribePacket == Class(152, <<
  Field("type", Enum(LobbyTypeEnum)), Field("gameid", I32),
  Field("address", Text), Field("objectid", I32)>>)
LobbyQueryPacket == Class(142, <<
  Field("gameid", I32), Field("address", Text),
  Field("type", Enum(LobbyTypeEnum))>>)
LobbySubscribePacket == Class(145, <<
  Field("type", Enum(LobbyTypeEnum)), Field("gameid", I32),
  Field("address", Text)>>)
LobbyUnsubscribePacket == Class(146, <<
  Field("type", Enum(LobbyTypeEnum)), Field("gameid", I32),
  Field("address", Text)>>)
LocalServiceTransportPacket == Class(103, <<
  Field("seq", I32), Field("servicedata", Blob)>>)
LoginRequestPacket == Class(10, <<
  Field("user", Text), Field("password", Text), Field("operatorid", I32),
  Field("credentials", Blob)>>)
LoginResponsePacket == Class(11, <<
  Field("screenname", Text), Field("pid", I32),
  Field("status", Enum(ResponseStatusEnum)), Field("code", I32),
  Field("message", Text), Field("credentials", Blob)>>)
LogoutPacket == Class(12, <<Field("leaveTables", Flag)>>)
MttPickedUpPacket == Class(210, <<
  Field("mttid", I32), Field("tableid", I32), Field("keepWatching", Flag)>>)
MttRegisterRequestPacket == Class(205, <<
  Field("mttid", I32), Field("params", Many(Obj(Param)))>>)
MttRegisterResponsePacket == Class(206, <<
  Field("mttid", I32),
  Field("status", Enum(TournamentRegisterResponseStatusEnum))>>)
MttSeatedPacket == Class(209, <<
  Field("mttid", I32), Field("tableid", I32), Field("seat", I8)>>)
MttTransportPacket == Class(104, <<
  Field("mttid", I32), Field("pid", I32), Field("mttdata", Blob),
  Field("attributes", Many(Obj(Attribute)))>>)
MttUnregisterRequestPacket == Class(207, <<Field("mttid", I32)>>)
MttUnregisterResponsePacket == Class(208, <<
  Field("mttid", I32),
  Field("status", Enum(TournamentRegisterResponseStatusEnum))>>)
NotifyChannelChatPacket == Class(123, <<
  Field("pid", I32), Field("channelid", I32), Field("targetid", I32),
  Field("nick", Text), Field("message", Text)>>)
NotifyInvitedPacket == Class(43, <<
  Field("inviter", I32), Field("screenname", Text), Field("tableid", I32),
  Field("seat", I8)>>)
NotifyJoinPacket == Class(60, <<
  Field("tableid", I32), Field("pid", I32), Field("nick", Text),
  Field("seat", I8)>>)
NotifyLeavePacket == Class(61, <<Field("tableid", I32), Field("pid", I32)>>)
NotifyRegisteredPacket == Class(211, <<Field("tournaments", Many(I32))>>)
TableSnapshotPacket == Class(143, <<
  Field("tableid", I32), Field("address", Text), Field("name", Text),
  Field("capacity", I16), Field("seated", I16),
  Field("params", Many(Obj(Param)))>>)
NotifySeatedPacket == Class(62, <<
  Field("tableid", I32), Field("seat", I8), Field("mttid", I32),
  Field("snapshot", Obj(TableSnapshotPacket))>>)
NotifyWatchingPacket == Class(63, <<Field("tableid", I32)>>)
PingPacket == Class(7, <<Field("id", I32)>>)
PlayerInfoPacket == Class(13, <<
  Field("pid", I32), Field("nick", Text), Field("details", Many(Obj(Param)))>>)
PlayerQueryRequestPacket == Class(16, <<Field("pid", I32)>>)
PlayerQueryResponsePacket == Class(17, <<
  Field("pid", I32), Field("nick", Text),
  Field("status", Enum(ResponseStatusEnum)), Field("data", Blob)>>)
ProbeStamp == Class(200, <<Field("clazz", Text), Field("timestamp", I64)>>)
ProbePacket == Class(201, <<
  Field("id", I32), Field("tableid", I32),
  Field("stamps", Many(Obj(ProbeStamp)))>>)
SeatInfoPacket == Class(15, <<
  Field("tableid", I32), Field("seat", I8),
  Field("status", Enum(PlayerStatusEnum)),
  Field("player", Obj(PlayerInfoPacket))>>)
ServiceTransportPacket == Class(101, <<
  Field("pid", I32), Field("seq", I32), Field("service", Text),
  Field("idtype", I8), Field("servicedata", Blob),
  Field("attributes", Many(Obj(Attribute)))>>)
SystemInfoRequestPacket == Class(18, <<>>)
SystemInfoResponsePacket == Class(19, <<
  Field("players", I32), Field("params", Many(Obj(Param)))>>)
SystemMessagePacket == Class(4, <<
  Field("type", I32), Field("level", I32), Field("message", Text),
  Field("pids", Many(I32))>>)
TableChatPacket == Class(80, <<
  Field("tableid", I32), Field("pid", I32), Field("message", Text)>>)
TableQueryRequestPacket == Class(38, <<Field("tableid", I32)>>)
TableQueryResponsePacket == Class(39, <<
  Field("tableid", I32), Field("status", Enum(ResponseStatusEnum)),
  Field("seats", Many(Obj(SeatInfoPacket)))>>)
TableRemovedPacket == Class(147, <<Field("tableid", I32)>>)
TableSnapshotListPacket == Class(153, <<
  Field("snapshots", Many(Obj(TableSnapshotPacket)))>>)
TableUpdatePacket == Class(144, <<
  Field("tableid", I32), Field("seated", I16),
  Field("params", Many(Obj(Param))), Field("removedParams", Many(Text))>>)
TableUpdateListPacket == Class(154, <<
  Field("updates", Many(Obj(TableUpdatePacket)))>>)
TournamentRemovedPacket == Class(150, <<Field("mttid", I32)>>)
TournamentSnapshotPacket == Class(148, <<
  Field("mttid", I32), Field("address", Text), Field("params", Many(Obj(Param)))>>)
TournamentSnapshotListPacket == Class(155, <<
  Field("snapshots", Many(Obj(TournamentSnapshotPacket)))>>)
TournamentUpdatePacket == Class(149, <<
  Field("mttid", I32), Field("params", Many(Obj(Param))),
  Field("removedParams", Many(Text))>>)
TournamentUpdateListPacket == Class(156, <<
  Field("updates", Many(Obj(TournamentUpdatePacket)))>>)
UnwatchRequestPacket == Class(34, <<Field("tableid", I32)>>)
UnwatchResponsePacket == Class(35, <<
  Field("tableid", I32), Field("status", Enum(ResponseStatusEnum))>>)
VersionPacket == Class(0, <<
  Field("game", I32), Field("operatorid", I32), Field("protocol", I32)>>)
WatchRequestPacket == Class(32, <<Field("tableid", I32)>>)
WatchResponsePacket == Class(33, <<
  Field("tableid", I32), Field("status", Enum(WatchResponseStatusEnum))>>)

-----------------------------------------------------------------------------
\* The classes ProtocolObjectFactory.create knows: all of them.
Classes == <<Attribute, BadPacket, ChannelChatPacket, Param, CreateTableRequestPacket,
  CreateTableResponsePacket, EncryptedTransportPacket,
  FilteredJoinCancelRequestPacket, FilteredJoinCancelResponsePacket,
  FilteredJoinTableAvailablePacket, ParamFilter,
  FilteredJoinTableRequestPacket, FilteredJoinTableResponsePacket,
  ForcedLogoutPacket, GameTransportPacket, GameVersionPacket, GoodPacket,
  InvitePlayersRequestPacket, JoinChatChannelRequestPacket,
  JoinChatChannelResponsePacket, JoinRequestPacket, JoinResponsePacket,
  KickPlayerPacket, LeaveChatChannelPacket, LeaveRequestPacket,
  LeaveResponsePacket, LobbyObjectSubscribePacket,
  LobbyObjectUnsubscribePacket, LobbyQueryPacket, LobbySubscribePacket,
  LobbyUnsubscribePacket, LocalServiceTransportPacket, LoginRequestPacket,
  LoginResponsePacket, LogoutPacket, MttPickedUpPacket,
  MttRegisterRequestPacket, MttRegisterResponsePacket, MttSeatedPacket,
  MttTransportPacket, MttUnregisterRequestPacket,
  MttUnregisterResponsePacket, NotifyChannelChatPacket, NotifyInvitedPacket,
  NotifyJoinPacket, NotifyLeavePacket, NotifyRegisteredPacket,
  TableSnapshotPacket, NotifySeatedPacket, NotifyWatchingPacket, PingPacket,
  PlayerInfoPacket, PlayerQueryRequestPacket, PlayerQueryResponsePacket,
  ProbeStamp, ProbePacket, SeatInfoPacket, ServiceTransportPacket,
  SystemInfoRequestPacket, SystemInfoResponsePacket, SystemMessagePacket,
  TableChatPacket, TableQueryRequestPacket, TableQueryResponsePacket,
  TableRemovedPacket, TableSnapshotListPacket, TableUpdatePacket,
  TableUpdateListPacket, TournamentRemovedPacket, TournamentSnapshotPacket,
  TournamentSnapshotListPacket, TournamentUpdatePacket,
  TournamentUpdateListPacket, UnwatchRequestPacket, UnwatchResponsePacket,
  VersionPacket, WatchRequestPacket, WatchResponsePacket>>
=============================================================================
