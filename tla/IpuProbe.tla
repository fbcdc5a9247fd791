------------------------------ MODULE IpuProbe ------------------------------
(***************************************************************************)
(* Binding and unbinding the driver: ipu6_pci_probe and ipu6_pci_remove,   *)
(* the deferred isys_probe and isys_remove of the auxiliary device, and    *)
(* every routine they call that acquires or releases something.            *)
(*                                                                         *)
(* A C function is a pair of lists: "body", the calls it makes in order,   *)
(* and "undo", the statements behind its error labels in order.  A call    *)
(* that may fail carries the position in "undo" its goto jumps to.  Two    *)
(* threads run such functions with a call stack each: "pci", the driver    *)
(* core probing, removing or resuming the PCI device, and "core", the      *)
(* driver core probing the isys auxiliary device.                          *)
(*                                                                         *)
(* A resource is a pair <<owner, name>>; what a function takes belongs to  *)
(* the owner it runs for.  "held" is what is live: memory, registrations,  *)
(* mappings, and the pointers other code tests.                            *)
(*                                                                         *)
(* A definition marked MISTAKE is a wrong variant of the one below it.     *)
(***************************************************************************)
EXTENDS Naturals, Sequences, FiniteSets

CONSTANTS
    Videos,         \* the video nodes of the receiver, in order (31 in the code)
    Receivers,      \* the CSI-2 receivers, in order (csi2.nports in the code)
    Sensors,        \* the entries of mipi_bridge_configs, in order
    Configs,        \* [virt, secure, graph]: CONFIG_VIDEO_IPU4_VIRT_SENSOR is set,
                    \* secure_mode, the firmware describes the camera graph itself
    MaxFailures     \* bound: how many calls fail

VARIABLES
    cfg,            \* the member of Configs this machine is
    stack,          \* stack[t]: the frames of thread t, innermost first
    held,           \* the live resources
    bound,          \* the PCI driver is bound
    answer,         \* an answer of the security engine has yet to interrupt
    misuse,         \* resources used or released while not held
    leaked,         \* what nobody can find again after the last release
    failed,         \* <<function, call>> of every call that failed in this bind
    failures        \* how many calls have failed

vars == <<cfg, stack, held, bound, answer, misuse, leaked, failed, failures>>

Threads == {"pci", "core"}

-----------------------------------------------------------------------------
(* The statements.                                                         *)

Take(n, at)    == [do |-> "take", n |-> n, of |-> "", at |-> at]
Check(n, at)   == [do |-> "check", n |-> n, of |-> "", at |-> at]
Call(n, s, at) == [do |-> "call", n |-> n, of |-> s, at |-> at]
Run(n, s)      == Call(n, s, 0)
Drop(n)        == [do |-> "drop", n |-> n, of |-> "", at |-> 0]
\* A release that tolerates what was never taken.
Free(n)        == [do |-> "free", n |-> n, of |-> "", at |-> 0]
\* A call that reports success whether or not it took the resource.
Maybe(n)       == [do |-> "maybe", n |-> n, of |-> "", at |-> 0]
Defer          == [do |-> "defer", n |-> "", of |-> "", at |-> 0]
\* A request to the security engine, and the wait for its answer.
Ask            == [do |-> "ask", n |-> "", of |-> "", at |-> 0]
Await(n, at)   == [do |-> "await", n |-> n, of |-> "", at |-> at]
Skip           == [do |-> "skip", n |-> "", of |-> "", at |-> 0]
If(b, op)      == IF b THEN op ELSE Skip

Fn(body, undo) == [body |-> body, undo |-> undo]
Has(s, n)      == <<s, n>> \in held
Backwards(q, Op(_)) == [k \in 1..Len(q) |-> Op(q[Len(q) + 1 - k])]
Each(q, Op(_)) == [k \in 1..Len(q) |-> Op(q[k])]

-----------------------------------------------------------------------------
(* The MMU of a subsystem s (ipu6-mmu.c).                                  *)

get_dummy_page == Fn(<<Take("dummy_page", 2), Take("dummy_map", 1)>>, <<Drop("dummy_page")>>)
free_dummy_page == Fn(<<Drop("dummy_map"), Drop("dummy_page")>>, <<>>)

alloc_dummy_l2_pt == Fn(<<Take("dummy_l2_pt", 2), Take("dummy_l2_map", 1)>>,
                        <<Drop("dummy_l2_pt")>>)
free_dummy_l2_pt == Fn(<<Drop("dummy_l2_map"), Drop("dummy_l2_pt")>>, <<>>)

alloc_l1_pt == Fn(<<Take("l1_pt", 2), Take("l1_map", 1)>>, <<Drop("l1_pt")>>)

mmu_alloc(s) ==
    Fn(<<Take("mmu_info", 5), Call("get_dummy_page", s, 4),
         Call("alloc_dummy_l2_pt", s, 3), Take("l2_pts", 2),
         Call("alloc_l1_pt", s, 1)>>,
       <<Drop("l2_pts"), Run("free_dummy_l2_pt", s), Run("free_dummy_page", s),
         Drop("mmu_info")>>)

alloc_dma_mapping(s) ==
    Fn(<<Take("dmap", 2), Call("mmu_alloc", s, 1), Take("iovad", 0)>>,
       <<Drop("dmap")>>)

mmu_init(s) ==
    Fn(<<Take("mmu_pdata", 1), Take("mmu", 1), Call("alloc_dma_mapping", s, 1)>>,
       <<>>)

allocate_trash_buffer ==
    Fn(<<Take("trash_iova", 4), Take("trash_pci_map", 3), Check("ipu6_mmu_map", 2)>>,
       <<Skip, Drop("trash_pci_map"), Drop("trash_iova")>>)

mmu_destroy(s) ==
    LET trash(n) == If(Has(s, "trash_page"), Drop(n))
    IN Fn(<<trash("trash_iova"), trash("trash_pci_map"), trash("trash_page"),
            Drop("l2_pts"), Run("free_dummy_page", s), Drop("l1_map"),
            Drop("dummy_l2_pt"), Drop("l1_pt"), Drop("mmu_info")>>, <<>>)

mmu_cleanup(s) == Fn(<<Run("mmu_destroy", s), Drop("iovad"), Drop("dmap")>>, <<>>)

\* The trash page is allocated once and kept for as long as the MMU.  The block
\* addresses of the code's tables are all in range.
mmu_hw_init(s) ==
    LET once(op) == If(~Has(s, "trash_iova"), op)
    IN Fn(<<once(Take("trash_page", 2)), once(Call("allocate_trash_buffer", s, 1)),
            Take("ready", 0)>>,
          <<Drop("trash_page")>>)

mmu_hw_cleanup == Fn(<<Free("ready")>>, <<>>)

-----------------------------------------------------------------------------
(* The bus of auxiliary devices (ipu6-bus.c).                              *)

bus_release == Fn(<<Free("auxdrv"), Free("gave_up"), Drop("pdata"), Drop("adev")>>,
                  <<>>)

bus_initialize_device == Fn(<<Take("adev", 2), Check("auxiliary_device_init", 1)>>,
                            <<Drop("adev")>>)

bus_add_device(s) == Fn(<<Take("added", 1), Take("listed", 0)>>,
                        <<Run("bus_release", s)>>)

\* The driver core unbinds the driver of the device it removes; isys is the
\* only one that has a driver.
auxiliary_device_delete(s) ==
    Fn(<<If(Has(s, "driver"), Run("isys_remove", s)), Free("driver"),
         Run("devres_release", s), Drop("added")>>, <<>>)

\* What devm_ allocated for the auxiliary device, and its driver data.
devres_release == Fn(<<Free("isys"), Free("csi2"), Free("csi2_again"),
                       Free("drvdata")>>, <<>>)

\* ipu6_bus_add_device adds to the head of the list: psys goes first.
bus_del_device(s) == Fn(<<Drop("listed"), Run("auxiliary_device_delete", s),
                          Run("bus_release", s)>>, <<>>)

bus_del_devices ==
    Fn(<<If(Has("psys", "listed"), Run("bus_del_device", "psys")),
         If(Has("isys", "listed"), Run("bus_del_device", "isys"))>>, <<>>)

-----------------------------------------------------------------------------
(* The firmware image (ipu6-buttress.c, ipu6-cpd.c).                       *)

map_fw_image ==
    Fn(<<Check("virt_addr_valid", 4), Take("pages", 4), Check("to_page", 3),
         Take("fw_sgt", 3), Take("fw_pci_map", 2), Check("sg_offset", 1),
         Maybe("fw_iova"), Drop("pages")>>,
       <<Drop("fw_pci_map"), Drop("fw_sgt"), Drop("pages")>>)

\* ipu6_dma_unmap_sg reads the address of the first entry before it looks at
\* how many there are.
unmap_fw_image == Fn(<<Free("fw_iova"), Drop("fw_pci_map"), Drop("fw_sgt")>>, <<>>)

parse_module_data == Fn(<<Check("cmpnt_id", 1), Check("cmpnt_version", 1)>>, <<>>)

create_pkg_dir(s) == Fn(<<Take("pkg_dir", 2), Call("parse_module_data", s, 1)>>,
                        <<Drop("pkg_dir")>>)

\* ipu6_dma_free warns and returns when the address is not allocated.
free_pkg_dir == Fn(<<Free("pkg_dir")>>, <<>>)

validate_cpd == Fn(<<Check("hdr_len", 1), Check("ent_cnt", 1), Check("ent", 1)>>, <<>>)
validate_moduledata(s) == Fn(<<Check("size", 1), Call("validate_cpd", s, 1)>>, <<>>)
validate_metadata == Fn(<<Check("size", 1), Check("type", 1), Check("cmpnts", 1)>>, <<>>)

validate_cpd_file(s) ==
    Fn(<<Call("validate_cpd", s, 1), Check("hdr_mark", 1), Check("manifest", 1),
         Call("validate_metadata", s, 1), Call("validate_moduledata", s, 1)>>, <<>>)

buttress_init ==
    Fn(<<Take("buttress", 0), Take("isr_enable", 0), Check("ipc_reset", 1)>>,
       <<Drop("buttress")>>)
buttress_exit == Fn(<<Drop("isr_enable"), Drop("buttress")>>, <<>>)

-----------------------------------------------------------------------------
(* The camera graph (ambu-ipu-bridge.c, virt-sensor.c).                    *)

unregister_sensor == Fn(<<Drop("i2c_dev"), Drop("group")>>, <<>>)

init_i2c_dev == Fn(<<Check("adapter", 1), Take("i2c_dev", 1)>>, <<>>)

setup_mipi_bridge(s) == Fn(<<Take("group", 2), Call("init_i2c_dev", s, 1)>>,
                           <<Drop("group")>>)

\* When sensor k fails the k - 1 counted in n_sensors are unregistered.
setup_mipi_bridges ==
    Fn([k \in 1..Len(Sensors) |->
            Call("setup_mipi_bridge", Sensors[k], Len(Sensors) + 2 - k)],
       Backwards(Sensors, LAMBDA s : Run("unregister_sensor", s)))

ipu_bridge_init(s) ==
    Fn(<<Take("bridge", 4), Take("ipu_hid_node", 3),
         Call("setup_mipi_bridges", s, 2), Check("software_node_fwnode", 1),
         Take("secondary", 0)>>,
       <<Run("unregister_sensors", s), Drop("ipu_hid_node"), Drop("bridge")>>)

unregister_sensors == Fn(Each(Sensors, LAMBDA s : Run("unregister_sensor", s)), <<>>)

ipu_bridge_uninit(s) ==
    Fn(<<Free("secondary"), Run("unregister_sensors", s), Drop("ipu_hid_node"),
         Drop("bridge")>>, <<>>)

virt_sensor_install ==
    Fn(<<Take("bridge", 6), Take("group", 5), Check("software_node_fwnode", 4),
         Take("secondary", 0), Take("ctrl_handler", 3), Take("entity", 3),
         Take("async_sd", 1)>>,
       <<Drop("entity"), Drop("ctrl_handler"), Drop("secondary"), Drop("group"),
         Drop("bridge")>>)

virt_sensor_remove ==
    LET vs(n) == If(Has("graph", "bridge"), Drop(n))
    IN Fn(<<vs("async_sd"), vs("entity"), vs("ctrl_handler"), vs("secondary"),
            vs("group"), vs("bridge")>>, <<>>)

graph_init == IF cfg.virt THEN "virt_sensor_install" ELSE "ipu_bridge_init"
graph_exit == IF cfg.virt THEN "virt_sensor_remove" ELSE "ipu_bridge_uninit"

\* ipu6_isys_check_fwnode_graph also finds the endpoints of the secondary node.
check_fwnode_graph == cfg.graph \/ Has("graph", "secondary")

-----------------------------------------------------------------------------
(* The PCI device (ipu6.c).                                                *)

\* "ptr" and "err" are what isp->isys or isp->psys points to.
isys_init(s) ==
    Fn(<<If(~check_fwnode_graph, Call(graph_init, "graph", 3)), Take("pdata", 3),
         Call("bus_initialize_device", s, 2), Call("mmu_init", s, 1),
         Call("bus_add_device", s, 2), Take("ptr", 0)>>,
       <<Run("bus_release", s), Drop("pdata"), Take("err", 0)>>)

psys_init(s) ==
    Fn(<<Take("pdata", 3), Call("bus_initialize_device", s, 2),
         Call("mmu_init", s, 1), Call("bus_add_device", s, 2), Take("ptr", 0)>>,
       <<Run("bus_release", s), Drop("pdata"), Take("err", 0)>>)

pci_config_setup == Fn(<<Take("msi", 1)>>, <<>>)

pci_probe_calls(s) ==
       <<Take("isp", 10), Take("enabled", 10), Take("bar", 10),
         Check("dma_mask", 10), Call("pci_config_setup", s, 10),
         Call("buttress_init", s, 10), Take("cpd_fw", 9),
         Call("validate_cpd_file", s, 3), Call("isys_init", "isys", 3),
         Call("psys_init", "psys", 2), Take("psys_pm", 2),
         Call("mmu_hw_init", "psys", 2), Call("map_fw_image", "psys", 2),
         Call("create_pkg_dir", "psys", 2), Take("irq", 2),
         If(cfg.secure, Ask), If(cfg.secure, Await("authenticate", 1)),
         Run("mmu_hw_cleanup", "psys"), Drop("psys_pm"), Take("bus_ready", 0)>>

pci_probe_labels(s) ==
       <<Drop("irq"), Run(graph_exit, "graph"),
         If(Has("psys", "ptr") \/ Has("psys", "err"), Run("free_pkg_dir", "psys")),
         If(Has("psys", "ptr") \/ Has("psys", "err"), Run("unmap_fw_image", "psys")),
         If(Has("psys", "ptr"), Run("mmu_cleanup", "psys")),
         If(Has("isys", "ptr"), Run("mmu_cleanup", "isys")),
         Run("bus_del_devices", s), Drop("cpd_fw"), Run("buttress_exit", s)>>

\* MISTAKE
pci_probe_unready(s) ==
    Fn(SubSeq(pci_probe_calls(s), 1, Len(pci_probe_calls(s)) - 1), pci_probe_labels(s))

pci_probe(s) == Fn(pci_probe_calls(s), pci_probe_labels(s))

\* MISTAKE
pci_remove_mmu_first(s) ==
    Fn(<<Drop("irq"), Run("free_pkg_dir", "psys"), Run("unmap_fw_image", "psys"),
         Run("buttress_exit", s), Drop("cpd_fw"), Run("mmu_cleanup", "psys"),
         Run("mmu_cleanup", "isys"), Run("bus_del_devices", s),
         Run(graph_exit, "graph")>>, <<>>)

pci_remove(s) ==
    Fn(<<Drop("irq"), Run("free_pkg_dir", "psys"), Run("unmap_fw_image", "psys"),
         Run("buttress_exit", s), Run("bus_del_devices", s), Drop("cpd_fw"),
         Run("mmu_cleanup", "psys"), Run("mmu_cleanup", "isys"),
         Run(graph_exit, "graph")>>, <<>>)

resume ==
    Fn(<<Take("psys_pm", 1), If(cfg.secure, Ask),
         If(cfg.secure, Await("authenticate", 0)), Drop("psys_pm")>>, <<>>)

-----------------------------------------------------------------------------
(* The isys auxiliary device (ipu6-isys.c and the parts it registers).     *)

video_init ==
    Fn(<<Take("mutex", 0), Take("vb2_queue", 4), Take("entity", 3),
         Take("vdev", 1)>>,
       <<Free("vdev"), Drop("entity"), Drop("vb2_queue"), Drop("mutex")>>)

\* vb2_video_unregister_device releases the queue with the device.
video_cleanup == Fn(<<Drop("vdev"), Drop("vb2_queue"), Drop("entity"), Drop("mutex")>>,
                    <<>>)

\* MISTAKE
register_video_devices_short ==
    Fn([k \in 1..Len(Videos) |->
            Call("video_init", Videos[k], Len(Videos) + 2 - k)],
       [k \in 1..Len(Videos) |->
            If(k < Len(Videos), Run("video_cleanup", Videos[Len(Videos) + 1 - k]))])

register_video_devices ==
    Fn([k \in 1..Len(Videos) |->
            Call("video_init", Videos[k], Len(Videos) + 2 - k)],
       Backwards(Videos, LAMBDA v : Run("video_cleanup", v)))

unregister_video_devices == Fn(Each(Videos, LAMBDA v : Run("video_cleanup", v)), <<>>)

subdev_init == Fn(<<Check("pads", 1), Take("entity", 1)>>, <<>>)

\* ipu6_isys_csi2_cleanup: every part tolerates what was never registered.
csi2_cleanup == Fn(<<Free("subdev"), Free("state"), Free("entity")>>, <<>>)

csi2_init(r) == Fn(<<Call("subdev_init", r, 1), Take("state", 1), Take("subdev", 1)>>,
                   <<Run("csi2_cleanup", r)>>)

csi2_register_subdevices ==
    LET N == Len(Receivers)
    IN Fn(<<Take("csi2_again", N + 1)>> \o
          [k \in 1..N |-> Call("csi2_init", Receivers[k], N + 2 - k)],
          Backwards(Receivers, LAMBDA r : Run("csi2_cleanup", r)))

csi2_unregister_subdevices == Fn(Each(Receivers, LAMBDA r : Run("csi2_cleanup", r)), <<>>)

create_media_links == Fn(<<Check("media_create_pad_link", 1)>>, <<>>)

\* An endpoint that cannot be parsed or added ends the function at once.
notifier_add == Fn(<<Check("endpoint_parse", 1), Take("asd", 1)>>, <<>>)

notifier_init ==
    Fn(Each(Sensors, LAMBDA s : Call("notifier_add", s, 2)) \o <<Take("notifier", 1)>>,
       <<Run("nf_cleanup", "isys")>>)

nf_cleanup == Fn(Each(Sensors, LAMBDA s : Run("nf_remove", s)), <<>>)
nf_remove == Fn(<<Free("asd")>>, <<>>)

notifier_cleanup(s) == Fn(<<Drop("notifier"), Run("nf_cleanup", s)>>, <<>>)

register_devices(s) ==
    Fn(<<Take("media_init", 0), Take("media_dev", 4), Take("v4l2_dev", 4),
         Call("register_video_devices", s, 3), Call("csi2_register_subdevices", s, 2),
         Call("create_media_links", s, 1), Call("notifier_init", s, 1)>>,
       <<Run("csi2_unregister_subdevices", s), Run("unregister_video_devices", s),
         Drop("v4l2_dev"), Free("media_dev"), Drop("media_init")>>)

unregister_devices(s) ==
    Fn(<<Run("unregister_video_devices", s), Run("csi2_unregister_subdevices", s),
         Drop("v4l2_dev"), Drop("media_dev"), Drop("media_init")>>, <<>>)

\* The messages are one that is allocated first and the others; a failure frees
\* those on the list.
alloc_fw_msg_bufs == Fn(<<Take("fw_msg", 2), Take("fw_msgs", 1)>>, <<Drop("fw_msg")>>)
free_fw_msg_bufs == Fn(<<Drop("fw_msg"), Drop("fw_msgs")>>, <<>>)

isys_probe(s) ==
    LET open(op) == If(~cfg.secure, op)
    IN Fn(<<If(~Has("pci", "bus_ready"), Defer), Take("isys", 7),
            Take("auxdrv", 0), Take("csi2", 7), Call("mmu_hw_init", s, 7),
            Take("mutexes", 0), Take("drvdata", 0),
            open(Call("map_fw_image", s, 5)), open(Call("create_pkg_dir", s, 4)),
            Take("pm_qos", 0), Call("alloc_fw_msg_bufs", s, 2),
            Call("register_devices", s, 1), Run("mmu_hw_cleanup", s)>>,
          <<Run("free_fw_msg_bufs", s), Drop("pm_qos"), open(Run("free_pkg_dir", s)),
            open(Run("unmap_fw_image", s)), Drop("mutexes"),
            Run("mmu_hw_cleanup", s)>>)

isys_remove(s) ==
    LET open(op) == If(~cfg.secure, op)
    IN Fn(<<Run("free_fw_msg_bufs", s), Run("unregister_devices", s),
            Run("notifier_cleanup", s), Drop("pm_qos"),
            open(Run("free_pkg_dir", s)), open(Run("unmap_fw_image", s)),
            Drop("mutexes")>>, <<>>)

\* The function a frame runs, for the owner s.
Code(n, s) ==
    CASE n = "get_dummy_page" -> get_dummy_page
      [] n = "free_dummy_page" -> free_dummy_page
      [] n = "alloc_dummy_l2_pt" -> alloc_dummy_l2_pt
      [] n = "free_dummy_l2_pt" -> free_dummy_l2_pt
      [] n = "alloc_l1_pt" -> alloc_l1_pt
      [] n = "mmu_alloc" -> mmu_alloc(s)
      [] n = "alloc_dma_mapping" -> alloc_dma_mapping(s)
      [] n = "mmu_init" -> mmu_init(s)
      [] n = "allocate_trash_buffer" -> allocate_trash_buffer
      [] n = "mmu_destroy" -> mmu_destroy(s)
      [] n = "mmu_cleanup" -> mmu_cleanup(s)
      [] n = "mmu_hw_init" -> mmu_hw_init(s)
      [] n = "mmu_hw_cleanup" -> mmu_hw_cleanup
      [] n = "bus_release" -> bus_release
      [] n = "bus_initialize_device" -> bus_initialize_device
      [] n = "bus_add_device" -> bus_add_device(s)
      [] n = "auxiliary_device_delete" -> auxiliary_device_delete(s)
      [] n = "devres_release" -> devres_release
      [] n = "bus_del_device" -> bus_del_device(s)
      [] n = "bus_del_devices" -> bus_del_devices
      [] n = "map_fw_image" -> map_fw_image
      [] n = "unmap_fw_image" -> unmap_fw_image
      [] n = "create_pkg_dir" -> create_pkg_dir(s)
      [] n = "parse_module_data" -> parse_module_data
      [] n = "free_pkg_dir" -> free_pkg_dir
      [] n = "validate_cpd_file" -> validate_cpd_file(s)
      [] n = "validate_cpd" -> validate_cpd
      [] n = "validate_moduledata" -> validate_moduledata(s)
      [] n = "validate_metadata" -> validate_metadata
      [] n = "buttress_init" -> buttress_init
      [] n = "buttress_exit" -> buttress_exit
      [] n = "unregister_sensor" -> unregister_sensor
      [] n = "setup_mipi_bridge" -> setup_mipi_bridge(s)
      [] n = "init_i2c_dev" -> init_i2c_dev
      [] n = "setup_mipi_bridges" -> setup_mipi_bridges
      [] n = "unregister_sensors" -> unregister_sensors
      [] n = "ipu_bridge_init" -> ipu_bridge_init(s)
      [] n = "ipu_bridge_uninit" -> ipu_bridge_uninit(s)
      [] n = "virt_sensor_install" -> virt_sensor_install
      [] n = "virt_sensor_remove" -> virt_sensor_remove
      [] n = "isys_init" -> isys_init(s)
      [] n = "psys_init" -> psys_init(s)
      [] n = "pci_config_setup" -> pci_config_setup
      [] n = "pci_probe" -> pci_probe(s)
      [] n = "pci_remove" -> pci_remove(s)
      [] n = "resume" -> resume
      [] n = "video_init" -> video_init
      [] n = "video_cleanup" -> video_cleanup
      [] n = "register_video_devices" -> register_video_devices
      [] n = "unregister_video_devices" -> unregister_video_devices
      [] n = "subdev_init" -> subdev_init
      [] n = "csi2_cleanup" -> csi2_cleanup
      [] n = "csi2_init" -> csi2_init(s)
      [] n = "csi2_register_subdevices" -> csi2_register_subdevices
      [] n = "csi2_unregister_subdevices" -> csi2_unregister_subdevices
      [] n = "create_media_links" -> create_media_links
      [] n = "notifier_add" -> notifier_add
      [] n = "notifier_init" -> notifier_init
      [] n = "nf_cleanup" -> nf_cleanup
      [] n = "nf_remove" -> nf_remove
      [] n = "notifier_cleanup" -> notifier_cleanup(s)
      [] n = "register_devices" -> register_devices(s)
      [] n = "unregister_devices" -> unregister_devices(s)
      [] n = "alloc_fw_msg_bufs" -> alloc_fw_msg_bufs
      [] n = "free_fw_msg_bufs" -> free_fw_msg_bufs
      [] n = "isys_probe" -> isys_probe(s)
      [] n = "isys_remove" -> isys_remove(s)

-----------------------------------------------------------------------------
(* Running them.                                                           *)

\* What the call that takes or releases <<s, n>> dereferences.
Uses(s, n) ==
    CASE n \in {"pkg_dir", "fw_iova", "fw_msg", "fw_msgs"} -> {<<s, "adev">>, <<s, "dmap">>}
      [] n \in {"trash_page", "trash_iova", "ready"} -> {<<s, "mmu">>, <<s, "dmap">>}
      [] n \in {"added", "listed", "auxdrv", "drvdata"} -> {<<s, "adev">>}
      [] n \in {"vdev", "vb2_queue"} -> {<<"isys", "isys">>, <<"isys", "v4l2_dev">>}
      [] n \in {"subdev", "state"} -> {<<"isys", "csi2_again">>, <<"isys", "v4l2_dev">>}
      [] n \in {"notifier", "pm_qos", "mutexes", "v4l2_dev", "media_dev"} ->
            {<<"isys", "isys">>}
      [] n \in {"ipu_hid_node", "i2c_dev"} -> {<<"graph", "bridge">>}
      [] n \in {"irq", "isr_enable", "buttress"} -> {<<"pci", "isp">>, <<"pci", "bar">>}
      [] OTHER -> {}

Frame(n, s) == [fn |-> n, of |-> s, mode |-> "run", at |-> 1]
Top(t) == stack[t][1]
Lines(f) == IF f.mode = "run" THEN Code(f.fn, f.of).body ELSE Code(f.fn, f.of).undo
AtEnd(t) == Top(t).at > Len(Lines(Top(t)))

\* The lock of the isys device, held while a driver is probed or removed.
Deleting == \E k \in 1..Len(stack["pci"]) :
                stack["pci"][k].fn = "auxiliary_device_delete"
                /\ stack["pci"][k].of = "isys"
Waits(t) == t = "pci" /\ Top(t).fn = "auxiliary_device_delete"
            /\ Top(t).of = "isys" /\ stack["core"] # <<>>

Onward(t) == stack' = [stack EXCEPT ![t][1].at = @ + 1]
Jump(t, mode, at) == stack' = [stack EXCEPT ![t][1].mode = mode, ![t][1].at = at]

\* The steps of thread t at the statement op, whose resource is r.
Acquire(t, op, r) ==
    /\ op.do \in {"take", "maybe"}
    /\ held' = held \cup {r}
    /\ misuse' = misuse \cup (Uses(r[1], r[2]) \ held)
    /\ Onward(t)
    /\ UNCHANGED <<cfg, bound, answer, leaked, failed, failures>>

Release(t, op, r) ==
    /\ op.do \in {"drop", "free"}
    /\ held' = held \ {r}
    /\ LET need == Uses(r[1], r[2]) \cup {x \in {r} : op.do = "drop"}
       IN misuse' = misuse \cup (need \ held)
    /\ Onward(t)
    /\ UNCHANGED <<cfg, bound, answer, leaked, failed, failures>>

\* A statement that takes nothing: a check that passes, a mapping that was
\* silently not made, an answer that has arrived.
Passes(t, op) ==
    /\ op.do \in {"check", "skip", "maybe", "ask", "await"}
    /\ op.do = "await" => ~answer
    /\ answer' = (answer \/ op.do = "ask")
    /\ Onward(t)
    /\ UNCHANGED <<cfg, held, bound, misuse, leaked, failed, failures>>

\* A call fails or times out.  ipu6_resume only logs it.
Fails(t, op) ==
    /\ op.do \in {"take", "check", "await"} /\ (op.at > 0 \/ op.do = "await")
    /\ failures < MaxFailures
    /\ failures' = failures + 1
    /\ failed' = failed \cup {<<Top(t).fn, op.n>>}
    /\ IF op.at > 0 THEN Jump(t, "fail", op.at) ELSE Onward(t)
    /\ UNCHANGED <<cfg, held, bound, answer, misuse, leaked>>

\* -EPROBE_DEFER: the driver core will probe the device again.
Defers(t, op) ==
    /\ op.do = "defer"
    /\ stack' = [stack EXCEPT ![t] = <<>>]
    /\ UNCHANGED <<cfg, held, bound, answer, misuse, leaked, failed, failures>>

Calls(t, op) ==
    /\ op.do = "call"
    /\ stack' = [stack EXCEPT ![t] = <<Frame(op.n, op.of)>> \o @]
    /\ UNCHANGED <<cfg, held, bound, answer, misuse, leaked, failed, failures>>

\* Back to the caller, which goes on or jumps to its own label.
Returns(t) ==
    /\ Len(stack[t]) > 1
    /\ LET g == stack[t][2]
           ok == Top(t).mode = "run"
           h == IF ok THEN [g EXCEPT !.at = @ + 1]
                      ELSE [g EXCEPT !.mode = "fail", !.at = Lines(g)[g.at].at]
       IN /\ stack' = [stack EXCEPT ![t] = <<h>> \o Tail(Tail(@))]
          /\ failed' = IF ok THEN failed ELSE failed \cup {<<g.fn, Top(t).fn>>}
    /\ UNCHANGED <<cfg, held, bound, answer, misuse, leaked, failures>>

Step(t) ==
    /\ stack[t] # <<>>
    /\ IF AtEnd(t)
       THEN Returns(t)
       ELSE /\ ~Waits(t)
            /\ \E op \in {Lines(Top(t))[Top(t).at]} :
                 LET r == <<Top(t).of, op.n>> IN
                 \/ Acquire(t, op, r) \/ Release(t, op, r) \/ Passes(t, op)
                 \/ Fails(t, op) \/ Defers(t, op) \/ Calls(t, op)

Ends(t, fn) == Len(stack[t]) = 1 /\ Top(t).fn = fn /\ AtEnd(t)

-----------------------------------------------------------------------------
(* The driver core and the interrupt.                                      *)

\* Released with the PCI device, because pcim_ or devm_ took it or because
\* it lies in struct ipu6_device or struct ipu6_mmu.
PciManaged == {"isp", "enabled", "bar", "msi", "irq", "mmu", "mmu_pdata", "ptr",
               "err", "bus_ready", "ready"}

\* static_bridge and g_virt_sensor outlive the binding.
Kept == IF Has("graph", "bridge")
        THEN {r \in held : r[1] = "graph" \/ r[2] \in {"group", "i2c_dev"}}
        ELSE {}

Bind ==
    /\ ~bound /\ stack["pci"] = <<>>
    /\ stack' = [stack EXCEPT !["pci"] = <<Frame("pci_probe", "pci")>>]
    /\ failed' = {} /\ leaked' = {}
    /\ UNCHANGED <<cfg, held, bound, answer, misuse, failures>>

Bound ==
    /\ Ends("pci", "pci_probe") /\ Top("pci").mode = "run"
    /\ bound' = TRUE
    /\ stack' = [stack EXCEPT !["pci"] = <<>>]
    /\ UNCHANGED <<cfg, held, answer, misuse, leaked, failed, failures>>

Unbind ==
    /\ bound /\ stack["pci"] = <<>>
    /\ stack' = [stack EXCEPT !["pci"] = <<Frame("pci_remove", "pci")>>]
    /\ UNCHANGED <<cfg, held, bound, answer, misuse, leaked, failed, failures>>

Released ==
    /\ \/ Ends("pci", "pci_probe") /\ Top("pci").mode = "fail"
       \/ Ends("pci", "pci_remove")
    /\ bound' = FALSE /\ answer' = FALSE
    /\ stack' = [stack EXCEPT !["pci"] = <<>>]
    /\ held' = Kept
    /\ leaked' = {r \in held \ Kept : r[2] \notin PciManaged}
    /\ UNCHANGED <<cfg, misuse, failed, failures>>

\* The driver core waits for pending probes before the machine sleeps, and
\* probes no driver until it is awake.
Resume ==
    /\ bound /\ stack = [t \in Threads |-> <<>>]
    /\ Has("isys", "driver") \/ Has("isys", "gave_up")
    /\ stack' = [stack EXCEPT !["pci"] = <<Frame("resume", "pci")>>]
    /\ UNCHANGED <<cfg, held, bound, answer, misuse, leaked, failed, failures>>

Resumed ==
    /\ Ends("pci", "resume")
    /\ stack' = [stack EXCEPT !["pci"] = <<>>]
    /\ UNCHANGED <<cfg, held, bound, answer, misuse, leaked, failed, failures>>

\* A probe that deferred is tried again; one that failed is not.
ProbeIsys ==
    /\ Has("isys", "added") /\ ~Has("isys", "driver") /\ ~Has("isys", "gave_up")
    /\ stack["core"] = <<>> /\ ~Deleting
    /\ stack' = [stack EXCEPT !["core"] = <<Frame("isys_probe", "isys")>>]
    /\ UNCHANGED <<cfg, held, bound, answer, misuse, leaked, failed, failures>>

IsysProbed ==
    /\ Ends("core", "isys_probe")
    /\ stack' = [stack EXCEPT !["core"] = <<>>]
    /\ LET managed == {<<"isys", n>> : n \in {"isys", "csi2", "csi2_again", "drvdata"}}
       IN held' = IF Top("core").mode = "run"
                  THEN held \cup {<<"isys", "driver">>}
                  ELSE (held \ managed) \cup {<<"isys", "gave_up">>}
    /\ UNCHANGED <<cfg, bound, answer, misuse, leaked, failed, failures>>

\* ipu6_buttress_isr runs the handler of each auxiliary device that has driver
\* data, whichever of them the interrupt is for.
Isr ==
    /\ answer /\ Has("pci", "irq") /\ Has("pci", "isr_enable")
    /\ \E t \in Threads : stack[t] # <<>>
    /\ answer' = FALSE
    /\ LET need == {<<s, "adev">> : s \in {x \in {"isys", "psys"} : Has(x, "ptr")}}
                   \cup (IF Has("isys", "auxdrv") THEN {<<"isys", "drvdata">>} ELSE {})
       IN misuse' = misuse \cup (need \ held)
    /\ UNCHANGED <<cfg, stack, held, bound, leaked, failed, failures>>

Init ==
    /\ cfg \in Configs
    /\ stack = [t \in Threads |-> <<>>]
    /\ held = {} /\ bound = FALSE /\ answer = FALSE
    /\ misuse = {} /\ leaked = {} /\ failed = {}
    /\ failures = 0

\* After a use of something that is not there the kernel may do anything; the
\* model stops.
Next ==
    /\ misuse = {}
    /\ \/ \E t \in Threads : Step(t)
       \/ Bind \/ Bound \/ Unbind \/ Released \/ Resume \/ Resumed
       \/ ProbeIsys \/ IsysProbed \/ Isr

Goes(A) == misuse = {} /\ A

\* A thread that runs keeps running, a device that is on the bus and has no
\* driver is probed, an interrupt that is pending is delivered.
Fairness ==
    /\ \A t \in Threads : WF_vars(Goes(Step(t)))
    /\ WF_vars(Goes(Bound \/ Released \/ Resumed))
    /\ WF_vars(Goes(ProbeIsys)) /\ WF_vars(Goes(IsysProbed)) /\ WF_vars(Goes(Isr))

Spec == Init /\ [][Next]_vars /\ Fairness

-----------------------------------------------------------------------------
(* Properties.                                                             *)

\* The error paths that release twice, or release what was never taken:
\* ipu6_isys_init and ipu6_psys_init free pdata after ipu6_bus_release did,
\* and the labels of ipu6_pci_probe read isp->psys when it is an error
\* pointer and unmap a firmware image that was not mapped.
Mishandled ==
    ({"isys_init", "psys_init"} \X {"mmu_init", "bus_add_device"}) \cup
    {<<"pci_probe", n>> : n \in {"psys_init", "psys_pm", "mmu_hw_init", "map_fw_image"}}

\* Whatever fails and whenever the driver is unbound, no function releases,
\* and no interrupt handler reads, what is not there.  The exceptions are the
\* calls in Mishandled, a machine with its own camera graph, for which
\* ambu_ipu_bridge_uninit follows the NULL static_bridge, and isys_isr after
\* a failed isys_probe, which leaves auxdrv_data set and no driver data.
OnlyLive ==
    misuse # {} =>
        \/ failed \cap Mishandled # {}
        \/ cfg.graph /\ ~cfg.virt
        \/ misuse = {<<"isys", "drvdata">>} /\ \E x \in failed : x[1] = "isys_probe"

\* What the functions above never give back, by the call that failed.  The
\* mapping of the dummy second-level table is never undone: ipu6_mmu_destroy
\* frees the page only.
Left ==
    {<<"isys", "dummy_l2_map">>, <<"psys", "dummy_l2_map">>} \cup
    {<<"pci", "isr_enable">> : x \in failed \cap {<<"buttress_init", "ipc_reset">>}} \cup
    {<<"pci", "psys_pm">> :
        x \in failed \cap {<<"pci_probe", n>> : n \in {"create_pkg_dir", "irq", "authenticate"}}} \cup
    {<<Sensors[k], "asd">> :
        k \in {j \in 1..Len(Sensors) : <<"notifier_init", "notifier_add">> \in failed}} \cup
    {<<"graph", "ctrl_handler">> : x \in failed \cap {<<"virt_sensor_install", "entity">>}}

\* The calls of ipu6_pci_probe whose failure does not take down the graph.
BeforeGraph == {"isp", "enabled", "bar", "dma_mask", "pci_config_setup", "buttress_init",
                "cpd_fw", "validate_cpd_file", "isys_init"}

WholeGraph ==
    {<<"graph", n>> : n \in IF cfg.virt
                            THEN {"bridge", "group", "secondary", "ctrl_handler",
                                  "entity", "async_sd"}
                            ELSE {"bridge", "ipu_hid_node", "secondary"}} \cup
    {<<Sensors[k], n>> : k \in {j \in 1..Len(Sensors) : ~cfg.virt}, n \in {"group", "i2c_dev"}}

\* Once the driver is unbound, or failed to bind, everything it took is given
\* back except what Left names for the call that failed; a camera graph left
\* behind is whole, so that the next ipu6_isys_init finds its endpoints, and
\* ipu6_pci_remove always takes it down.
NothingLeft ==
    ~bound /\ stack["pci"] = <<>> =>
        /\ leaked \subseteq Left
        /\ held # {} => held = WholeGraph
                        /\ \E n \in BeforeGraph : <<"pci_probe", n>> \in failed

\* isys_probe defers until ipu6_pci_probe is done; it is then run again and
\* either succeeds or fails, unless the PCI driver is unbound first.
IsysComesUp ==
    bound ~> \/ Has("isys", "driver") \/ Has("isys", "gave_up") \/ misuse # {}
             \/ ~bound \/ (stack["pci"] # <<>> /\ Top("pci").fn = "pci_remove")

=============================================================================
