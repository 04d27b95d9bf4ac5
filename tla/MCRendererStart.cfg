CONSTANTS
    Profile <- MCProfile
    Fault <- MCFault
    Config = {fast, exact}
    MaxLaunch = 2
SPECIFICATION Spec
INVARIANTS TypeOK BridgeMatchesRenderer PreflightHeeded SettingsRead VulkanSized
PROPERTY WindowReturns
