------------------------------ MODULE Messages ------------------------------
(***************************************************************************)
(* The messages of the wire contract, as the descriptors nanopb works on:  *)
(* each message is the sequence of its fields in tag order.                *)
(*                                                                         *)
(* Integers are Word and Long bits wide in place of 32 and 64.  11 and 22  *)
(* keep the shape of the codec: 32 and 64 are 4 and 1 more than a multiple *)
(* of the 7 bits of a varint byte, and so are they.                        *)
(***************************************************************************)
EXTENDS Naturals, Sequences

CONSTANTS
    Word, Long     \* bits of uint32_t and uint64_t

ASSUME WidthAssumption ==
    Word \in Nat /\ Long = 2 * Word /\ Word % 7 = 4 /\ Long % 7 = 1

\* A field: its name and tag, HTYPE (h), LTYPE (l), size of its buffer or
\* bits of its integer, entries of its array, message it holds.
Field(name, tag, h, l, size) ==
    [name |-> name, tag |-> tag, h |-> h, l |-> l, size |-> size, max |-> 1, sub |-> ""]
Uint32(name, tag) == Field(name, tag, "singular", "uvarint", Word)
Uint64(name, tag) == Field(name, tag, "singular", "uvarint", Long)
Int32(name, tag) == Field(name, tag, "singular", "varint", Word)
Bool(name, tag) == Field(name, tag, "singular", "bool", 1)
String(name, tag, size) == Field(name, tag, "singular", "string", size)
Bytes(name, tag, size) == Field(name, tag, "singular", "bytes", size)
Optional(field) == [field EXCEPT !.h = "optional"]
Repeated(field, max) == [field EXCEPT !.h = "repeated", !.max = max]
Submsg(name, tag, h, sub) == [Field(name, tag, h, "submsg", 0) EXCEPT !.sub = sub]
Body(name, tag, sub) == Submsg(name, tag, "oneof", sub)

\* pb_size_t of a bytes field, and sizeof the struct it makes with its
\* buffer: as the compiler aligns it.
LengthSize == 2
DataSize(field) == LengthSize * ((LengthSize + field.size + LengthSize - 1) \div LengthSize)

RadioSettings ==
    <<Uint32("freq_hz", 1), Uint32("bandwidth_hz", 2), Uint32("sf", 3), Uint32("cr", 4),
      Uint32("power_dbm", 5), Uint32("config_epoch", 6)>>

SetRadioSettings == <<Submsg("settings", 1, "optional", "RadioSettings")>>

SendPacket == <<Bytes("raw", 1, 255)>>

PacketAccepted == <<Uint32("seq", 1)>>

FetchPackets == <<Uint32("since_seq", 1), Uint32("max_count", 2)>>

PacketEntry ==
    <<Uint32("seq", 1), Bytes("raw", 2, 255), Uint64("uptime_ms", 3), Int32("rssi", 4),
      Int32("snr", 5), Uint32("origin", 6)>>

FetchEnd == <<Uint32("count", 1)>>

TxResult == <<Uint32("seq", 1), Bool("success", 2)>>

StoreInfo ==
    <<Uint32("count", 1), Uint32("capacity_bytes", 2), Uint32("dropped", 3),
      Uint32("oldest_seq", 4)>>

DeviceInfo ==
    <<Uint32("spec_version", 1), String("fw_version", 2, 16), String("board_name", 3, 17),
      Repeated(Uint32("capabilities", 4), 16), Uint64("uptime_ms", 5),
      Uint32("boot_count", 6), Submsg("store", 7, "optional", "StoreInfo"),
      Uint32("radio_config_epoch", 8), Uint32("battery_mv", 9), Bool("radio_ok", 10),
      Bool("auth_required", 11), Int32("noise_floor_dbm", 12)>>

DeviceSettings ==
    <<String("name", 1, 21), Bool("wifi_enabled", 2), String("wifi_ssid", 3, 33),
      String("wifi_password", 4, 64), Uint32("wifi_port", 5)>>

SetDeviceSettings ==
    <<Optional(String("name", 1, 21)), Optional(String("pin", 2, 9)),
      Optional(Bool("wifi_enabled", 3)), Optional(String("wifi_ssid", 4, 33)),
      Optional(String("wifi_password", 5, 64)), Optional(Uint32("wifi_port", 6))>>

Status ==
    <<Uint32("wifi_state", 1), String("wifi_ssid", 2, 33), Bytes("wifi_ipv4", 3, 4),
      Uint32("wifi_port", 4), Int32("wifi_rssi", 5), Uint32("ble_clients", 6),
      Uint32("usb_cdc_clients", 7), Uint32("wifi_tcp_clients", 8)>>

Auth == <<String("pin", 1, 9)>>

ErrorReply == <<Uint32("code", 1), String("message", 2, 65)>>

Ping == <<Bytes("payload", 1, 500)>>

Pong == <<Bytes("payload", 1, 500)>>

\* The requests whose message has no fields yet.
Plain == {"GetDeviceInfo", "GetRadioSettings", "PurgeStore", "GetDeviceSettings",
          "GetStatus", "Reboot", "FactoryReset", "Bootloader", "Ok"}

ClientToRadio ==
    <<Uint32("id", 1), Body("ping", 2, "Ping"), Body("get_device_info", 3, "GetDeviceInfo"),
      Body("get_radio_settings", 4, "GetRadioSettings"),
      Body("set_radio_settings", 5, "SetRadioSettings"), Body("send_packet", 6, "SendPacket"),
      Body("fetch_packets", 7, "FetchPackets"), Body("purge_store", 8, "PurgeStore"),
      Body("get_device_settings", 9, "GetDeviceSettings"),
      Body("set_device_settings", 10, "SetDeviceSettings"),
      Body("get_status", 11, "GetStatus"), Body("auth", 12, "Auth"),
      Body("reboot", 13, "Reboot"), Body("factory_reset", 14, "FactoryReset"),
      Body("bootloader", 15, "Bootloader")>>

RadioToClient ==
    <<Uint32("id", 1), Body("pong", 2, "Pong"), Body("device_info", 3, "DeviceInfo"),
      Body("radio_settings", 4, "RadioSettings"),
      Body("packet_accepted", 5, "PacketAccepted"), Body("packet_entry", 6, "PacketEntry"),
      Body("fetch_end", 7, "FetchEnd"), Body("tx_result", 8, "TxResult"),
      Body("device_settings", 9, "DeviceSettings"), Body("status", 10, "Status"),
      Body("ok", 11, "Ok"), Body("error", 12, "Error")>>

\* The descriptor of a message.
Desc(msg) ==
    CASE msg = "RadioSettings" -> RadioSettings
      [] msg = "SetRadioSettings" -> SetRadioSettings
      [] msg = "SendPacket" -> SendPacket
      [] msg = "PacketAccepted" -> PacketAccepted
      [] msg = "FetchPackets" -> FetchPackets
      [] msg = "PacketEntry" -> PacketEntry
      [] msg = "FetchEnd" -> FetchEnd
      [] msg = "TxResult" -> TxResult
      [] msg = "StoreInfo" -> StoreInfo
      [] msg = "DeviceInfo" -> DeviceInfo
      [] msg = "DeviceSettings" -> DeviceSettings
      [] msg = "SetDeviceSettings" -> SetDeviceSettings
      [] msg = "Status" -> Status
      [] msg = "Auth" -> Auth
      [] msg = "Error" -> ErrorReply
      [] msg = "Ping" -> Ping
      [] msg = "Pong" -> Pong
      [] msg = "ClientToRadio" -> ClientToRadio
      [] msg = "RadioToClient" -> RadioToClient
      [] msg \in Plain -> <<>>
=============================================================================
