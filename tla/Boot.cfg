SPECIFICATION BootSpec
CONSTANTS
    None = None
    Printer = {}
    Request = {}
    boot = boot
    sockets = sockets
    bundle = bundle
    update = update
    Task = {boot, sockets, bundle, update}
    BootTask = boot
    SocketTask = sockets
    Preset <- PresetOf
    MaxFaults = 3
INVARIANTS BootTypeOK NothingTwice NoReload
PROPERTIES MigratedAsDesigned BootCompletes
